---------------------------- MODULE Spec2Model ----------------------------
(***************************************************************************)
(* A model of the VRML PROTO preprocessor and scene extractor of           *)
(* vrml-reborn (src/src/parser/protoParser.ts, src/src/parser/vrmlParser.ts)*)
(*                                                                         *)
(* Texts are TLA+ strings and are read one character at a time, with the   *)
(* 0-based offsets of the TypeScript source (substring, match.index,       *)
(* startIndex, endIndex).  Every regular expression of the source is       *)
(* written out as an operator that computes the same matches.              *)
(***************************************************************************)
EXTENDS Integers, Sequences, FiniteSets, TLC

VARIABLES
    protos,        \* ProtoRegistry.protos of every registry instance: id -> (name -> definition)
    history,       \* per registry instance, the register/clear calls made on it, oldest first
    ret,           \* the last registry call and the value it returned
    resolveIn,     \* resolveISBindings: the call's arguments (and how the body was assembled)
    resolvedBody,  \* resolveISBindings: the returned text
    expandIn,      \* expandProto / expandAllProtos: the call's arguments
    expandedText,  \* expandAllProtos: the working text of the current recursion level
    currentDepth,  \* expandAllProtos: the currentDepth argument of the current recursion level
    passes,        \* expandAllProtos: number of replacement passes made by the call
    pc,            \* position of the call in progress
    parseLog,      \* parseVRML: the calls made so far, each with its source and returned scene
    sceneOut,      \* parseVRML: the SceneData returned by the last call
    sourceText,    \* parseVRML / extractProtoBlocks: the vrmlText argument of the call
    extraction,    \* extractProtoBlocks: the returned { protos, cleanedText }
    declText,      \* parseProtoFields: the fieldText argument of the call
    parsedFields   \* parseProtoFields: the returned ProtoField array

vars == <<protos, history, ret, resolveIn, resolvedBody, expandIn, expandedText,
          currentDepth, passes, pc, parseLog, sceneOut, sourceText, extraction,
          declText, parsedFields>>

-----------------------------------------------------------------------------
(* Characters and character classes of JavaScript regular expressions.     *)

Digits == {"0", "1", "2", "3", "4", "5", "6", "7", "8", "9"}
LowerLetters == {"a", "b", "c", "d", "e", "f", "g", "h", "i", "j", "k", "l", "m",
                 "n", "o", "p", "q", "r", "s", "t", "u", "v", "w", "x", "y", "z"}
UpperLetters == {"A", "B", "C", "D", "E", "F", "G", "H", "I", "J", "K", "L", "M",
                 "N", "O", "P", "Q", "R", "S", "T", "U", "V", "W", "X", "Y", "Z"}
\* \w
WordChars == Digits \cup LowerLetters \cup UpperLetters \cup {"_"}
\* \s (the white space that occurs in the modelled texts)
SpaceChars == {" ", "\n", "\t", "\r"}

Min(S) == CHOOSE x \in S : \A y \in S : x <= y
Max(S) == CHOOSE x \in S : \A y \in S : x >= y

\* const x = v; ... : Op applied to the value v, which is computed once
With(v, Op(_)) == Op(v)

\* str[i], 0-based; "" stands for undefined (i out of range)
CharAt(str, i) == IF i >= 0 /\ i < Len(str) THEN SubSeq(str, i + 1, i + 1) ELSE ""

\* String.prototype.substring(a, b): both ends clamped to [0, length], swapped if a > b
Substring(str, a, b) ==
    With(Max({0, Min({a, b, Len(str)})}), LAMBDA lo :
    With(Max({0, Min({Max({a, b}), Len(str)})}), LAMBDA hi :
        IF lo = hi THEN "" ELSE SubSeq(str, lo + 1, hi)))

\* String.prototype.substring(a): to the end of the string
SubstringFrom(str, a) == Substring(str, a, Len(str))

\* the literal lit stands in str at offset i
MatchAt(str, i, lit) ==
    /\ i >= 0
    /\ i + Len(lit) <= Len(str)
    /\ Substring(str, i, i + Len(lit)) = lit

\* String.prototype.includes
Includes(str, lit) == \E i \in 0..Len(str) : MatchAt(str, i, lit)

\* String.prototype.indexOf(lit, from); -1 when absent
IndexOfFrom(str, lit, from) ==
    With({i \in from..Len(str) : MatchAt(str, i, lit)}, LAMBDA S :
        IF S = {} THEN -1 ELSE Min(S))

\* end (exclusive) of the longest run of characters of class C that starts at i:
\* what C* consumes at i
RunEnd(str, i, C) ==
    IF i >= Len(str) THEN i
    ELSE Min({j \in i..Len(str) : j = Len(str) \/ CharAt(str, j) \notin C})

\* start of the longest run of characters of class C that ends (exclusive) at j
RunStart(str, j, C) ==
    Max({i \in 0..j : i = 0 \/ CharAt(str, i - 1) \notin C})

\* \b at offset i: exactly one of the characters before and after i is a word character
WordBoundaryAt(str, i) ==
    (CharAt(str, i - 1) \in WordChars) # (CharAt(str, i) \in WordChars)

\* String.prototype.trim
Trim(str) ==
    With({i \in 0..(Len(str) - 1) : CharAt(str, i) \notin SpaceChars}, LAMBDA S :
        IF S = {} THEN "" ELSE Substring(str, Min(S), Max(S) + 1))

\* toLowerCase of one character (the 'i' flag of a regular expression)
LowerAlphabet == "abcdefghijklmnopqrstuvwxyz"
UpperAlphabet == "ABCDEFGHIJKLMNOPQRSTUVWXYZ"
LowerChar(c) ==
    IF c \in UpperLetters
    THEN CharAt(LowerAlphabet, CHOOSE k \in 0..25 : CharAt(UpperAlphabet, k) = c)
    ELSE c

\* the literal lit stands in str at offset i, letter case ignored
MatchAtIgnoreCase(str, i, lit) ==
    /\ i >= 0
    /\ i + Len(lit) <= Len(str)
    /\ \A k \in 0..(Len(lit) - 1) :
          LowerChar(CharAt(str, i + k)) = LowerChar(CharAt(lit, k))

\* the elements of a finite set of integers, ascending
RECURSIVE SortedSeq(_)
SortedSeq(S) ==
    IF S = {} THEN <<>>
    ELSE With(Min(S), LAMBDA least : <<least>> \o SortedSeq(S \ {least}))

\* Array.prototype.join for an array of strings
RECURSIVE Join(_, _)
Join(strs, sep) ==
    IF Len(strs) = 0 THEN ""
    ELSE IF Len(strs) = 1 THEN strs[1]
    ELSE strs[1] \o sep \o Join(Tail(strs), sep)

-----------------------------------------------------------------------------
(* JavaScript numbers.  A number is NaN or a finite decimal mant / 10^scale *)
(* (normalised: mant is no multiple of 10 unless scale is 0).  The texts of *)
(* the model hold short decimal literals, whose double values print back    *)
(* as the same decimal, so the decimal is the value.                        *)

NaN == [nan |-> TRUE, mant |-> 0, scale |-> 0]

RECURSIVE Pow10(_)
Pow10(k) == IF k <= 0 THEN 1 ELSE 10 * Pow10(k - 1)

RECURSIVE MkNumber(_, _)
MkNumber(m, s) ==
    IF s > 0 /\ m % 10 = 0 THEN MkNumber(m \div 10, s - 1)
    ELSE [nan |-> FALSE, mant |-> m, scale |-> s]

IntNumber(n) == MkNumber(n, 0)

DecimalAlphabet == "0123456789"
DigitVal(c) == CHOOSE d \in 0..9 : CharAt(DecimalAlphabet, d) = c

\* the value of a run of decimal digits ("" is 0)
RECURSIVE DigitsToInt(_)
DigitsToInt(str) ==
    IF Len(str) = 0 THEN 0
    ELSE 10 * DigitsToInt(Substring(str, 0, Len(str) - 1))
         + DigitVal(CharAt(str, Len(str) - 1))

\* n >= 0 in radix 10
RECURSIVE IntToDigits(_)
IntToDigits(n) ==
    IF n < 10 THEN CharAt(DecimalAlphabet, n)
    ELSE IntToDigits(n \div 10) \o CharAt(DecimalAlphabet, n % 10)

\* String(x) for a number x (Number::toString, radix 10)
NumberToString(x) ==
    IF x.nan THEN "NaN"
    ELSE With(IF x.mant < 0 THEN -x.mant ELSE x.mant, LAMBDA a :
         With(IntToDigits(a % Pow10(x.scale)), LAMBDA fd :
             (IF x.mant < 0 THEN "-" ELSE "")
             \o IntToDigits(a \div Pow10(x.scale))
             \o (IF x.scale = 0 THEN ""
                 ELSE "." \o Substring("000000000000", 0, x.scale - Len(fd)) \o fd)))

\* The parts of the longest prefix of str that is a decimal literal
\*   [+-]? ( digits [. digits?] | . digits ) ( [eE] [+-]? digits )?
\* len = 0 when str starts with no such literal.
DecimalPrefix(str) ==
    With(IF CharAt(str, 0) \in {"+", "-"} THEN 1 ELSE 0, LAMBDA signLen :
    With(RunEnd(str, signLen, Digits), LAMBDA intEnd :
    With(IF CharAt(str, intEnd) = "." THEN RunEnd(str, intEnd + 1, Digits) ELSE intEnd,
         LAMBDA fracEnd :
    With(IF intEnd > signLen \/ fracEnd > intEnd + 1 THEN fracEnd ELSE 0, LAMBDA mantEnd :
    With(IF CharAt(str, mantEnd + 1) \in {"+", "-"} THEN mantEnd + 2 ELSE mantEnd + 1,
         LAMBDA expStart :
    With(RunEnd(str, expStart, Digits), LAMBDA expEnd :
    With(mantEnd > 0 /\ CharAt(str, mantEnd) \in {"e", "E"} /\ expEnd > expStart,
         LAMBDA hasExp :
        [len   |-> IF mantEnd = 0 THEN 0 ELSE IF hasExp THEN expEnd ELSE mantEnd,
         neg   |-> CharAt(str, 0) = "-",
         int   |-> Substring(str, signLen, intEnd),
         frac  |-> IF fracEnd > intEnd THEN Substring(str, intEnd + 1, fracEnd) ELSE "",
         exp   |-> IF hasExp
                   THEN (IF CharAt(str, mantEnd + 1) = "-" THEN -1 ELSE 1)
                        * DigitsToInt(Substring(str, expStart, expEnd))
                   ELSE 0])))))))

\* the number a decimal literal denotes
DecimalValue(d) ==
    With((IF d.neg THEN -1 ELSE 1) * DigitsToInt(d.int \o d.frac), LAMBDA m :
        IF Len(d.frac) >= d.exp
        THEN MkNumber(m, Len(d.frac) - d.exp)
        ELSE MkNumber(m * Pow10(d.exp - Len(d.frac)), 0))

\* parseFloat(str): leading white space skipped, then the longest decimal prefix
ParseFloat(str) ==
    With(DecimalPrefix(SubstringFrom(str, RunEnd(str, 0, SpaceChars))), LAMBDA d :
        IF d.len = 0 THEN NaN ELSE DecimalValue(d))

\* Number(str): the whole trimmed string must be a decimal literal; "" is 0
ToNumber(str) ==
    With(Trim(str), LAMBDA t :
    With(DecimalPrefix(t), LAMBDA d :
        IF t = "" THEN IntNumber(0)
        ELSE IF d.len = Len(t) THEN DecimalValue(d)
        ELSE NaN))

\* String.prototype.split(/\s+/): the pieces between maximal runs of white space
\* (a leading or trailing run yields an empty first or last piece)
RECURSIVE SplitSpaces(_)
SplitSpaces(str) ==
    With({i \in 0..(Len(str) - 1) : CharAt(str, i) \in SpaceChars}, LAMBDA S :
        IF S = {} THEN <<str>>
        ELSE <<Substring(str, 0, Min(S))>>
             \o SplitSpaces(SubstringFrom(str, RunEnd(str, Min(S), SpaceChars))))

\* Array.prototype.map(Number)
MapNumber(strs) == [k \in 1..Len(strs) |-> ToNumber(strs[k])]

\* Array.prototype.slice(0, n)
Slice0(arr, n) == IF Len(arr) <= n THEN arr ELSE SubSeq(arr, 1, n)

-----------------------------------------------------------------------------
(* Field values (ProtoField.defaultValue and the values of a field map are  *)
(* typed any): a number, an array of numbers, a string, or null.            *)

NumValue(x)   == [kind |-> "number", items |-> <<x>>, str |-> ""]
ArrayValue(a) == [kind |-> "array", items |-> a, str |-> ""]
StrValue(t)   == [kind |-> "string", items |-> <<>>, str |-> t]
NullValue     == [kind |-> "null", items |-> <<>>, str |-> ""]

\* the numbers n1, n2, ... written as integers
IntArray(ns) == ArrayValue([k \in 1..Len(ns) |-> IntNumber(ns[k])])

\* formatFieldValue: value.join(' ') for an array, String(value) otherwise
FormatFieldValueDefaultJoin(value) ==
    CASE value.kind = "array" ->
            Join([k \in 1..Len(value.items) |-> NumberToString(value.items[k])], ",")
      [] value.kind = "number" -> NumberToString(value.items[1])
      [] value.kind = "string" -> value.str
      [] OTHER -> "null"
FormatFieldValue(value) ==
    CASE value.kind = "array" ->
            Join([k \in 1..Len(value.items) |-> NumberToString(value.items[k])], " ")
      [] value.kind = "number" -> NumberToString(value.items[1])
      [] value.kind = "string" -> value.str
      [] OTHER -> "null"

-----------------------------------------------------------------------------
(* ProtoRegistry: a Map from PROTO name to ProtoDefinition.                 *)

\* what Map.get returns for an absent key
Undefined == [name |-> "", fields |-> <<>>, body |-> "", undefined |-> TRUE]

\* a ProtoDefinition object
ProtoDefinition(name, fields, body) ==
    [name |-> name, fields |-> fields, body |-> body, undefined |-> FALSE]

\* a ProtoField object
ProtoField(name, type, defaultValue) ==
    [name |-> name, type |-> type, defaultValue |-> defaultValue]

\* new Map()
EmptyMap == [n \in {} |-> Undefined]

\* Map.set
MapSet(m, key, val) == [n \in DOMAIN m \cup {key} |-> IF n = key THEN val ELSE m[n]]

\* ProtoRegistry.register: protos.set(name, definition)
RegisterKeepsFirst(m, name, definition) ==
    IF name \in DOMAIN m THEN m ELSE MapSet(m, name, definition)
RegisterUnderDefinitionName(m, name, definition) ==
    MapSet(m, definition.name, definition)
Register(m, name, definition) == MapSet(m, name, definition)

\* ProtoRegistry.lookup: protos.get(name)
Lookup(m, name) == IF name \in DOMAIN m THEN m[name] ELSE Undefined

\* ProtoRegistry.clear: protos.clear()
ClearKeepsOne(m) ==
    IF DOMAIN m = {} THEN m
    ELSE LET k == CHOOSE n \in DOMAIN m : TRUE IN [n \in {k} |-> m[n]]
Clear(m) == EmptyMap

\* ProtoRegistry.size
Size(m) == Cardinality(DOMAIN m)

\* ProtoRegistry.has
Has(m, name) == name \in DOMAIN m

\* ProtoRegistry.getNames (as a set: the order is used for logging only)
GetNames(m) == DOMAIN m

-----------------------------------------------------------------------------
(* SpecRegistry: two ProtoRegistry instances and the calls made on them.    *)

\* the registry instances: two, as in the isolation tests
RegistryIds == {1, 2}

\* bound on the number of register/clear calls made, all instances together
MaxCalls == 3

\* names passed to register, lookup and has
RegNames == {"Ball", "Crate"}

\* definitions passed to register (a definition's own name need not be the key)
RegDefinitions ==
    { ProtoDefinition("Ball",
          <<ProtoField("radius", "SFFloat", NumValue(IntNumber(1)))>>,
          "Sphere { radius IS radius }"),
      ProtoDefinition("Ball",
          <<ProtoField("boxColor", "SFColor", IntArray(<<1, 0, 0>>)),
            ProtoField("boxSize", "SFFloat", NumValue(IntNumber(2)))>>,
          "Shape { geometry Box { size IS boxSize } }"),
      ProtoDefinition("Crate", <<>>, "Box { }") }

\* register/clear calls made so far
RECURSIVE TotalLen(_, _)
TotalLen(h, R) ==
    IF R = {} THEN 0
    ELSE LET r == CHOOSE x \in R : TRUE IN Len(h[r]) + TotalLen(h, R \ {r})
CallsMade == TotalLen(history, RegistryIds)

\* the state the other specifications leave alone
NoCall == [op |-> "none", reg |-> 0, name |-> "", def |-> Undefined, val |-> Undefined]
NoResolveIn == [bodyTemplate |-> "", fieldValues |-> EmptyMap, parts |-> <<>>,
                gap |-> "", wrapped |-> FALSE]
NoExpandIn == [vrmlText |-> "", registry |-> EmptyMap, maxDepth |-> 0, kind |-> "none"]
NoScene == [shapes |-> <<>>]
NoExtraction == [protos |-> <<>>, cleanedText |-> ""]

ExtractIdle ==
    /\ sourceText = ""
    /\ extraction = NoExtraction
    /\ declText = ""
    /\ parsedFields = <<>>

RegistryIdle ==
    /\ resolveIn = NoResolveIn
    /\ resolvedBody = ""
    /\ expandIn = NoExpandIn
    /\ expandedText = ""
    /\ currentDepth = 0
    /\ passes = 0
    /\ parseLog = <<>>
    /\ sceneOut = NoScene
    /\ ExtractIdle

RegistryFrame ==
    UNCHANGED <<resolveIn, resolvedBody, expandIn, expandedText, currentDepth,
                passes, pc, parseLog, sceneOut,
                sourceText, extraction, declText, parsedFields>>

\* constructor: this.protos = new Map(), for each instance
InitRegistry ==
    /\ protos = [r \in RegistryIds |-> EmptyMap]
    /\ history = [r \in RegistryIds |-> <<>>]
    /\ ret = NoCall
    /\ pc = "registry"
    /\ RegistryIdle

\* registry.register(name, definition) on instance r
RegisterCall(r, name, definition) ==
    /\ CallsMade < MaxCalls
    /\ protos' = [protos EXCEPT ![r] = Register(protos[r], name, definition)]
    /\ history' = [history EXCEPT
                      ![r] = Append(@, [op |-> "register", name |-> name, def |-> definition])]
    /\ ret' = [op |-> "register", reg |-> r, name |-> name, def |-> definition,
               val |-> Undefined]
    /\ RegistryFrame

\* registry.clear() on instance r
ClearCall(r) ==
    /\ CallsMade < MaxCalls
    /\ protos' = [protos EXCEPT ![r] = Clear(protos[r])]
    /\ history' = [history EXCEPT
                      ![r] = Append(@, [op |-> "clear", name |-> "", def |-> Undefined])]
    /\ ret' = [op |-> "clear", reg |-> r, name |-> "", def |-> Undefined, val |-> Undefined]
    /\ RegistryFrame

\* registry.lookup(name) on instance r
LookupCall(r, name) ==
    /\ ret' = [op |-> "lookup", reg |-> r, name |-> name, def |-> Undefined,
               val |-> Lookup(protos[r], name)]
    /\ UNCHANGED <<protos, history>>
    /\ RegistryFrame

\* registry.has(name) on instance r
HasCall(r, name) ==
    /\ ret' = [op |-> "has", reg |-> r, name |-> name, def |-> Undefined,
               val |-> Has(protos[r], name)]
    /\ UNCHANGED <<protos, history>>
    /\ RegistryFrame

\* registry.size() on instance r
SizeCall(r) ==
    /\ ret' = [op |-> "size", reg |-> r, name |-> "", def |-> Undefined,
               val |-> Size(protos[r])]
    /\ UNCHANGED <<protos, history>>
    /\ RegistryFrame

NextRegistry ==
    \/ \E r \in RegistryIds, n \in RegNames, d \in RegDefinitions : RegisterCall(r, n, d)
    \/ \E r \in RegistryIds : ClearCall(r)
    \/ \E r \in RegistryIds, n \in RegNames : LookupCall(r, n)
    \/ \E r \in RegistryIds, n \in RegNames : HasCall(r, n)
    \/ \E r \in RegistryIds : SizeCall(r)

SpecRegistry == InitRegistry /\ [][NextRegistry]_vars

\* the calls of a history made since its last clear
RECURSIVE SinceLastClear(_)
SinceLastClear(h) ==
    IF Len(h) = 0 THEN <<>>
    ELSE IF h[Len(h)].op = "clear" THEN <<>>
    ELSE Append(SinceLastClear(SubSeq(h, 1, Len(h) - 1)), h[Len(h)])

\* the names a sequence of register calls registers
NamesRegistered(h) == {h[k].name : k \in 1..Len(h)}

\* the definition of the last register(name, .) of a sequence of register calls
LastRegistered(h, name) ==
    LET K == {k \in 1..Len(h) : h[k].name = name}
    IN  IF K = {} THEN Undefined ELSE h[Max(K)].def

\* C1: right after register(n, d), lookup(n) returns a definition with the name,
\* the field sequence and the body of d, and has(n) is true; lookup of a name not
\* registered since the last clear (or never) returns undefined.
C1_RegisterLookupRoundTrip ==
    /\ ret.op = "register" =>
          LET got == Lookup(protos[ret.reg], ret.name)
          IN  /\ got # Undefined
              /\ got.name = ret.def.name
              /\ got.fields = ret.def.fields
              /\ got.body = ret.def.body
              /\ Has(protos[ret.reg], ret.name)
    /\ \A r \in RegistryIds, n \in RegNames :
          n \notin NamesRegistered(SinceLastClear(history[r]))
             => Lookup(protos[r], n) = Undefined
    /\ ret.op = "lookup"
          /\ ret.name \notin NamesRegistered(SinceLastClear(history[ret.reg]))
          => ret.val = Undefined

\* C1 witness: a definition was just registered under a key that is not its own
\* name, and the other name of the same instance was never registered
C1_Witness ==
    /\ ret.op = "register"
    /\ ret.def.name # ret.name
    /\ Len(ret.def.fields) = 2
    /\ \E n \in RegNames : n \notin NamesRegistered(history[ret.reg])

\* C2: lookup(n) returns the definition of the most recent register(n, .), and
\* size() is the number of distinct names registered since the last clear.
C2_LastWriterWins ==
    /\ \A r \in RegistryIds, n \in RegNames :
          Lookup(protos[r], n) = LastRegistered(SinceLastClear(history[r]), n)
    /\ \A r \in RegistryIds :
          Size(protos[r]) = Cardinality(NamesRegistered(SinceLastClear(history[r])))
    /\ ret.op = "lookup" =>
          ret.val = LastRegistered(SinceLastClear(history[ret.reg]), ret.name)
    /\ ret.op = "size" =>
          ret.val = Cardinality(NamesRegistered(SinceLastClear(history[ret.reg])))

\* C2 witness: one name was registered twice in a row with different definitions,
\* and size() then answered 1
C2_Witness ==
    /\ ret.op = "size"
    /\ ret.val = 1
    /\ LET h == history[ret.reg]
       IN  /\ Len(h) >= 2
           /\ h[Len(h)].op = "register"
           /\ h[Len(h) - 1].op = "register"
           /\ h[Len(h)].name = h[Len(h) - 1].name
           /\ h[Len(h)].def # h[Len(h) - 1].def

\* C3: after clear(), size() is 0 and no name is found; over register-then-clear
\* cycles on one instance only the names registered in the current cycle are visible.
C3_ClearEmpties ==
    /\ \A r \in RegistryIds :
          (Len(history[r]) > 0 /\ history[r][Len(history[r])].op = "clear")
             => /\ Size(protos[r]) = 0
                /\ \A n \in RegNames :
                      Lookup(protos[r], n) = Undefined /\ ~Has(protos[r], n)
    /\ \A r \in RegistryIds :
          GetNames(protos[r]) = NamesRegistered(SinceLastClear(history[r]))
    /\ ret.op = "has" =>
          ret.val = (ret.name \in NamesRegistered(SinceLastClear(history[ret.reg])))

\* C3 witness: an instance in its second cycle (register, clear, register) was asked
\* for the name of the first cycle and answered false
C3_Witness ==
    /\ ret.op = "has"
    /\ ret.val = FALSE
    /\ LET h == history[ret.reg]
       IN  /\ Len(h) = 3
           /\ h[1].op = "register" /\ h[1].name = ret.name
           /\ h[2].op = "clear"
           /\ h[3].op = "register" /\ h[3].name # ret.name

-----------------------------------------------------------------------------
(* resolveISBindings                                                        *)

\* The offsets k of an "IS" that /(\w+)\s+IS\s+(\w+)/ can match: white space on
\* both sides of it, a word character before the left white space and one after
\* the right white space.
ISCandidates(body) ==
    {k \in 0..(Len(body) - 2) :
        /\ MatchAt(body, k, "IS")
        /\ CharAt(body, k - 1) \in SpaceChars
        /\ CharAt(body, RunStart(body, k, SpaceChars) - 1) \in WordChars
        /\ CharAt(body, k + 2) \in SpaceChars
        /\ CharAt(body, RunEnd(body, k + 2, SpaceChars)) \in WordChars}

\* The match of /(\w+)\s+IS\s+(\w+)/ around the "IS" at offset k, for a search that
\* starts at lastIndex: (\w+) is the word before it (from lastIndex on, when the
\* search starts inside that word) and the second (\w+) the whole word after it.
ISMatchAt(body, k, lastIndex) ==
    With(RunStart(body, k, SpaceChars), LAMBDA propEnd :
    With(Max({RunStart(body, propEnd, WordChars), lastIndex}), LAMBDA propStart :
    With(RunEnd(body, k + 2, SpaceChars), LAMBDA fieldStart :
    With(RunEnd(body, fieldStart, WordChars), LAMBDA fieldEnd :
        [index        |-> propStart,
         lastIndex    |-> fieldEnd,
         propertyName |-> Substring(body, propStart, propEnd),
         fieldName    |-> Substring(body, fieldStart, fieldEnd),
         fullMatch    |-> Substring(body, propStart, fieldEnd),
         matched      |-> propStart < propEnd]))))

\* while ((match = isPattern.exec(bodyTemplate)) !== null): the successive matches,
\* each search starting where the previous match ended
RECURSIVE ISMatchesFrom(_, _, _)
ISMatchesFrom(body, ks, lastIndex) ==
    IF Len(ks) = 0 THEN <<>>
    ELSE With(ISMatchAt(body, Head(ks), lastIndex), LAMBDA m :
             IF m.matched
             THEN <<m>> \o ISMatchesFrom(body, Tail(ks), m.lastIndex)
             ELSE ISMatchesFrom(body, Tail(ks), lastIndex))

ISMatches(body) == ISMatchesFrom(body, SortedSeq(ISCandidates(body)), 0)

\* the replacement recorded for one match: "property value" when the field is in
\* the map, the matched text itself otherwise
ISReplacementNoHasCheck(m, fieldValues) ==
    [original    |-> m.fullMatch,
     replacement |-> m.propertyName \o " "
                     \o (IF m.fieldName \in DOMAIN fieldValues
                         THEN FormatFieldValue(fieldValues[m.fieldName])
                         ELSE "undefined"),
     fieldName   |-> m.fieldName]
ISReplacement(m, fieldValues) ==
    IF m.fieldName \in DOMAIN fieldValues
    THEN [original    |-> m.fullMatch,
          replacement |-> m.propertyName \o " "
                          \o FormatFieldValue(fieldValues[m.fieldName]),
          fieldName   |-> m.fieldName]
    ELSE [original    |-> m.fullMatch,
          replacement |-> m.fullMatch,
          fieldName   |-> m.fieldName]

\* escapeRegExp: a backslash before each of . * + ? ^ $ { } ( ) | [ ] \
\* (a matched text holds word characters and white space only, so none is added)
RegExpSpecials == {".", "*", "+", "?", "^", "$", "{", "}", "(", ")", "|", "[", "]", "\\"}
RECURSIVE EscapeRegExp(_)
EscapeRegExp(str) ==
    IF Len(str) = 0 THEN ""
    ELSE (IF CharAt(str, 0) \in RegExpSpecials THEN "\\" ELSE "") \o CharAt(str, 0)
         \o EscapeRegExp(SubstringFrom(str, 1))

\* the literal an escaped pattern matches: each escaped character stands for itself
RECURSIVE UnescapeRegExp(_)
UnescapeRegExp(pat) ==
    IF Len(pat) = 0 THEN ""
    ELSE IF CharAt(pat, 0) = "\\"
         THEN CharAt(pat, 1) \o UnescapeRegExp(SubstringFrom(pat, 2))
         ELSE CharAt(pat, 0) \o UnescapeRegExp(SubstringFrom(pat, 1))

\* the same replacement with no word boundary asked for after the literal
RECURSIVE ReplaceAllUnbounded(_, _, _, _)
ReplaceAllUnbounded(text, escapedOriginal, replacement, from) ==
    With(UnescapeRegExp(escapedOriginal), LAMBDA lit :
    With({i \in from..Len(text) : MatchAt(text, i, lit)}, LAMBDA S :
        IF S = {} \/ Len(lit) = 0 THEN SubstringFrom(text, from)
        ELSE Substring(text, from, Min(S)) \o replacement
             \o ReplaceAllUnbounded(text, escapedOriginal, replacement,
                                    Min(S) + Len(lit))))

\* text.replace(new RegExp(escapedOriginal + '\\b', 'g'), replacement): every match,
\* leftmost first and not overlapping, of the literal followed by a word boundary
RECURSIVE ReplaceAllBounded(_, _, _, _)
ReplaceAllBounded(text, escapedOriginal, replacement, from) ==
    With(UnescapeRegExp(escapedOriginal), LAMBDA lit :
    With({i \in from..Len(text) :
             MatchAt(text, i, lit) /\ WordBoundaryAt(text, i + Len(lit))}, LAMBDA S :
        IF S = {} \/ Len(lit) = 0 THEN SubstringFrom(text, from)
        ELSE Substring(text, from, Min(S)) \o replacement
             \o ReplaceAllBounded(text, escapedOriginal, replacement, Min(S) + Len(lit))))

\* for (const { original, replacement } of replacements) resolvedBody = ...
RECURSIVE ApplyReplacements(_, _)
ApplyReplacements(resolved, replacements) ==
    IF Len(replacements) = 0 THEN resolved
    ELSE ApplyReplacements(
             ReplaceAllBounded(resolved, EscapeRegExp(Head(replacements).original),
                               Head(replacements).replacement, 0),
             Tail(replacements))

ResolveISBindings(bodyTemplate, fieldValues) ==
    With(ISMatches(bodyTemplate), LAMBDA ms :
        ApplyReplacements(bodyTemplate,
                          [k \in 1..Len(ms) |-> ISReplacement(ms[k], fieldValues)]))

-----------------------------------------------------------------------------
(* SpecResolve: one call of resolveISBindings on a body assembled from       *)
(* occurrences "<token> IS <field>".                                        *)

\* bound on the number of occurrences in a body
MaxOccurrences == 2

\* property tokens (one is a suffix of another, one is also a field name)
Tokens == {"p", "xp", "a"}
\* field names (one is a prefix of the other)
Fields == {"a", "a0"}
\* white space written between the property token and IS
Gaps == {" ", "\n  "}

\* the field maps: every field absent or present, scalar and tuple values
FieldMaps ==
    { EmptyMap,
      MapSet(EmptyMap, "a", NumValue(MkNumber(5, 1))),
      MapSet(EmptyMap, "a", IntArray(<<0, 1, 0>>)),
      MapSet(EmptyMap, "a0", NumValue(IntNumber(2))),
      MapSet(MapSet(EmptyMap, "a", NumValue(MkNumber(5, 1))), "a0", NumValue(IntNumber(2))),
      MapSet(MapSet(EmptyMap, "a", IntArray(<<0, 1, 0>>)), "a0", NumValue(IntNumber(2))) }

Occurrences == [token : Tokens, field : Fields]

\* sequences of 1..n elements of S
SeqsUpTo(S, n) == UNION {[1..k -> S] : k \in 1..n}

\* the text of one occurrence
OccurrenceText(o, gap) == o.token \o gap \o "IS " \o o.field

\* the body: the occurrences one per line, bare or inside a node's braces
BodyOf(parts, gap, wrapped) ==
    LET lines == Join([k \in 1..Len(parts) |-> OccurrenceText(parts[k], gap)], "\n")
    IN  IF wrapped THEN "geometry Box { " \o lines \o " }" ELSE lines

ResolveInputs ==
    { [bodyTemplate |-> BodyOf(parts, gap, wrapped), fieldValues |-> fv,
       parts |-> parts, gap |-> gap, wrapped |-> wrapped] :
         parts \in SeqsUpTo(Occurrences, MaxOccurrences), gap \in Gaps,
         wrapped \in BOOLEAN, fv \in FieldMaps }

InitResolve ==
    /\ resolveIn \in ResolveInputs
    /\ resolvedBody = ""
    /\ pc = "resolve"
    /\ protos = [r \in RegistryIds |-> EmptyMap]
    /\ history = [r \in RegistryIds |-> <<>>]
    /\ ret = NoCall
    /\ expandIn = NoExpandIn
    /\ expandedText = ""
    /\ currentDepth = 0
    /\ passes = 0
    /\ parseLog = <<>>
    /\ sceneOut = NoScene
    /\ ExtractIdle

\* resolvedBody = resolveISBindings(bodyTemplate, fieldValues, protoName)
ResolveCall ==
    /\ pc = "resolve"
    /\ resolvedBody' = ResolveISBindings(resolveIn.bodyTemplate, resolveIn.fieldValues)
    /\ pc' = "resolved"
    /\ UNCHANGED <<protos, history, ret, resolveIn, expandIn, expandedText,
                   currentDepth, passes, parseLog, sceneOut,
                   sourceText, extraction, declText, parsedFields>>

NextResolve == ResolveCall

SpecResolve == InitResolve /\ [][NextResolve]_vars

\* /\bIS\b/ matches somewhere in the text
HasISKeyword(text) ==
    \E i \in 0..(Len(text) - 2) :
        /\ MatchAt(text, i, "IS")
        /\ WordBoundaryAt(text, i)
        /\ WordBoundaryAt(text, i + 2)

\* what an occurrence has to read after resolution: "<token> <value>" when its
\* field is in the map, the occurrence itself when it is not
OccurrenceResolved(o, gap, fv) ==
    IF o.field \in DOMAIN fv
    THEN o.token \o " " \o FormatFieldValue(fv[o.field])
    ELSE OccurrenceText(o, gap)

BodyResolved(parts, gap, wrapped, fv) ==
    LET lines == Join([k \in 1..Len(parts) |-> OccurrenceResolved(parts[k], gap, fv)], "\n")
    IN  IF wrapped THEN "geometry Box { " \o lines \o " }" ELSE lines

\* the formatted value the spec gives: components joined by one space for a tuple,
\* the literal scalar otherwise
SpaceJoined(v) ==
    IF v.kind = "array"
    THEN Join([k \in 1..Len(v.items) |-> NumberToString(v.items[k])], " ")
    ELSE NumberToString(v.items[1])

\* every occurrence of the body names field f
AllName(parts, f) == \A k \in 1..Len(parts) : parts[k].field = f

\* C5: a body of N occurrences "<token> IS <field>" (one per line, the token an
\* identifier other than IS) that all name one field present in the map resolves to the same text with every occurrence reading
\* "<token> <formatted value>" (the value space-joined for a tuple), each property
\* token kept, and no IS keyword left anywhere.
C5_SameFieldAllResolved ==
    pc = "resolved" =>
      \A f \in Fields :
        (AllName(resolveIn.parts, f) /\ f \in DOMAIN resolveIn.fieldValues) =>
           LET v     == SpaceJoined(resolveIn.fieldValues[f])
               lines == Join([k \in 1..Len(resolveIn.parts) |->
                                 resolveIn.parts[k].token \o " " \o v], "\n")
           IN  /\ resolvedBody = (IF resolveIn.wrapped
                                  THEN "geometry Box { " \o lines \o " }" ELSE lines)
               /\ ~HasISKeyword(resolvedBody)
               /\ \A k \in 1..Len(resolveIn.parts) :
                     Includes(resolvedBody, resolveIn.parts[k].token \o " " \o v)

\* C5 witness: two occurrences with different tokens bound to one field whose value
\* is a tuple, resolved
C5_Witness ==
    /\ pc = "resolved"
    /\ Len(resolveIn.parts) = 2
    /\ resolveIn.parts[1].token # resolveIn.parts[2].token
    /\ AllName(resolveIn.parts, "a")
    /\ "a" \in DOMAIN resolveIn.fieldValues
    /\ resolveIn.fieldValues["a"].kind = "array"
    /\ resolvedBody # resolveIn.bodyTemplate

\* C6: an occurrence whose field is absent from the map is left as written (the
\* result still holds "IS <fieldName>"), and every occurrence whose field is present
\* is resolved to its value.
C6_UnresolvedLeftUnchanged ==
    pc = "resolved" =>
      /\ resolvedBody = BodyResolved(resolveIn.parts, resolveIn.gap, resolveIn.wrapped,
                                     resolveIn.fieldValues)
      /\ \A k \in 1..Len(resolveIn.parts) :
            LET o == resolveIn.parts[k]
            IN  IF o.field \in DOMAIN resolveIn.fieldValues
                THEN Includes(resolvedBody,
                              o.token \o " " \o FormatFieldValue(resolveIn.fieldValues[o.field]))
                ELSE /\ Includes(resolvedBody, OccurrenceText(o, resolveIn.gap))
                     /\ Includes(resolvedBody, "IS " \o o.field)

\* C6 witness: a body with one occurrence of an absent field and one of a present
\* field, resolved
C6_Witness ==
    /\ pc = "resolved"
    /\ Len(resolveIn.parts) = 2
    /\ resolveIn.parts[1].field \notin DOMAIN resolveIn.fieldValues
    /\ resolveIn.parts[2].field \in DOMAIN resolveIn.fieldValues
    /\ resolvedBody # resolveIn.bodyTemplate

-----------------------------------------------------------------------------
(* parseProtoInstances, parseProtoInstanceFields, expandProto               *)

\* The brace-counting loops of the source: braceCount starts at 1 just after the
\* opening delimiter at offset open; the result is the offset after the delimiter
\* that brings it to 0, or -1 when the text ends first (braceCount !== 0).
RECURSIVE CountToZero(_, _, _)
CountToZero(text, delims, braceCount) ==
    IF Len(delims) = 0 THEN -1
    ELSE With(IF CharAt(text, Head(delims)) \in {"{", "["}
              THEN braceCount + 1 ELSE braceCount - 1, LAMBDA c :
             IF c = 0 THEN Head(delims) + 1
             ELSE CountToZero(text, Tail(delims), c))

MatchingEnd(text, open, openCh, closeCh) ==
    CountToZero(text,
                SortedSeq({j \in (open + 1)..(Len(text) - 1) :
                              CharAt(text, j) \in {openCh, closeCh}}),
                1)

\* The matches of /(\w+)\s*\{/g, as the offsets of their "{": an opening brace
\* with a word before it, white space allowed in between.  Each search starts
\* after the "{" of the previous match, so there is one match per such brace.
InstancePatternBraces(text) ==
    {b \in 0..(Len(text) - 1) :
        /\ CharAt(text, b) = "{"
        /\ CharAt(text, RunStart(text, b, SpaceChars) - 1) \in WordChars}

\* match.index and match[1] of the match whose "{" is at offset b
InstanceMatchStart(text, b) == RunStart(text, RunStart(text, b, SpaceChars), WordChars)
InstanceMatchName(text, b) ==
    Substring(text, InstanceMatchStart(text, b), RunStart(text, b, SpaceChars))

\* [-+]?\d*\.?\d+(?:[eE][-+]?\d+)? tried at offset i: the end of the match, -1 if none
NumberMatchEnd(text, i) ==
    With(IF CharAt(text, i) \in {"+", "-"} THEN i + 1 ELSE i, LAMBDA s :
    With(RunEnd(text, s, Digits), LAMBDA intEnd :
    With(RunEnd(text, intEnd + 1, Digits), LAMBDA fracEnd :
    With(IF CharAt(text, intEnd) = "." /\ fracEnd > intEnd + 1 THEN fracEnd
         ELSE IF intEnd > s THEN intEnd
         ELSE -1, LAMBDA mantEnd :
    With(IF CharAt(text, mantEnd + 1) \in {"+", "-"} THEN mantEnd + 2 ELSE mantEnd + 1,
         LAMBDA e :
    With(RunEnd(text, e, Digits), LAMBDA expEnd :
        IF mantEnd = -1 THEN -1
        ELSE IF CharAt(text, mantEnd) \in {"e", "E"} /\ expEnd > e THEN expEnd
        ELSE mantEnd))))))

\* (\s+(number)){n} tried at offset i: the captured numbers and the end of the
\* match; ok is FALSE when it does not match
RECURSIVE NumbersMatch(_, _, _)
NumbersMatch(text, i, n) ==
    IF n = 0 THEN [ok |-> TRUE, caps |-> <<>>, end |-> i]
    ELSE With(RunEnd(text, i, SpaceChars), LAMBDA numStart :
         With(NumberMatchEnd(text, numStart), LAMBDA numEnd :
             IF numStart = i \/ numEnd = -1
             THEN [ok |-> FALSE, caps |-> <<>>, end |-> i]
             ELSE With(NumbersMatch(text, numEnd, n - 1), LAMBDA rest :
                      IF ~rest.ok
                      THEN [ok |-> FALSE, caps |-> <<>>, end |-> i]
                      ELSE [ok |-> TRUE,
                            caps |-> <<Substring(text, numStart, numEnd)>> \o rest.caps,
                            end |-> rest.end])))

\* bodyText.match(valuePattern): valuePattern is the field name, taken as written
\* and with the 'i' flag, followed by n numbers; the leftmost match
ValuePatternMatch(bodyText, fieldName, n) ==
    With({i \in 0..Len(bodyText) :
             /\ MatchAtIgnoreCase(bodyText, i, fieldName)
             /\ NumbersMatch(bodyText, i + Len(fieldName), n).ok}, LAMBDA S :
        IF S = {} THEN [ok |-> FALSE, caps |-> <<>>, end |-> 0]
        ELSE NumbersMatch(bodyText, Min(S) + Len(fieldName), n))

\* how many numbers the value pattern of a field type captures (0: the type is skipped)
ValueArity(fieldType) ==
    CASE fieldType = "SFFloat" -> 1
      [] fieldType \in {"SFVec3f", "SFColor"} -> 3
      [] fieldType = "SFRotation" -> 4
      [] OTHER -> 0

\* the value built from the captures of a matched value pattern
OverrideValue(fieldType, caps) ==
    IF fieldType = "SFFloat" THEN NumValue(ParseFloat(caps[1]))
    ELSE ArrayValue([k \in 1..Len(caps) |-> ParseFloat(caps[k])])

\* for (const field of definition.fields): the overrides found in bodyText
RECURSIVE OverridesOf(_, _, _)
OverridesOf(fields, bodyText, fieldValues) ==
    IF Len(fields) = 0 THEN fieldValues
    ELSE With(Head(fields), LAMBDA field :
         With(ValuePatternMatch(bodyText, field.name, ValueArity(field.type)), LAMBDA m :
             OverridesOf(Tail(fields), bodyText,
                         IF ValueArity(field.type) > 0 /\ m.ok
                         THEN MapSet(fieldValues, field.name,
                                     OverrideValue(field.type, m.caps))
                         ELSE fieldValues)))

ParseProtoInstanceFields(protoName, bodyText, registry) ==
    IF ~Has(registry, protoName) THEN EmptyMap
    ELSE OverridesOf(Lookup(registry, protoName).fields, bodyText, EmptyMap)

\* the instances parseProtoInstances pushes, by the offset of their "{": the
\* name is registered and the braces match
InstanceBraces(vrmlText, registry) ==
    {b \in InstancePatternBraces(vrmlText) :
        /\ Has(registry, InstanceMatchName(vrmlText, b))
        /\ MatchingEnd(vrmlText, b, "{", "}") # -1}

ProtoInstanceAt(vrmlText, registry, b) ==
    With(MatchingEnd(vrmlText, b, "{", "}"), LAMBDA bodyEnd :
    With(InstanceMatchName(vrmlText, b), LAMBDA name :
        [protoName   |-> name,
         fieldValues |-> ParseProtoInstanceFields(
                             name, Substring(vrmlText, b + 1, bodyEnd - 1), registry),
         startIndex  |-> InstanceMatchStart(vrmlText, b),
         endIndex    |-> bodyEnd]))

\* parseProtoInstances: the instances in the order they are found
ParseProtoInstances(vrmlText, registry) ==
    With(SortedSeq(InstanceBraces(vrmlText, registry)), LAMBDA bs :
        [k \in 1..Len(bs) |-> ProtoInstanceAt(vrmlText, registry, bs[k])])

\* expandProto, the merge: the instance value when it has one, the default otherwise
RECURSIVE MergedValuesDefaultsOnly(_, _, _)
MergedValuesDefaultsOnly(fields, fieldValues, mergedValues) ==
    IF Len(fields) = 0 THEN mergedValues
    ELSE MergedValuesDefaultsOnly(Tail(fields), fieldValues,
             MapSet(mergedValues, Head(fields).name, Head(fields).defaultValue))
RECURSIVE MergedValues(_, _, _)
MergedValues(fields, fieldValues, mergedValues) ==
    IF Len(fields) = 0 THEN mergedValues
    ELSE MergedValues(Tail(fields), fieldValues,
             MapSet(mergedValues, Head(fields).name,
                    IF Head(fields).name \in DOMAIN fieldValues
                    THEN fieldValues[Head(fields).name]
                    ELSE Head(fields).defaultValue))

\* expandProto: '' for an undefined PROTO, the resolved body otherwise
ExpandProto(instance, registry) ==
    IF ~Has(registry, instance.protoName) THEN ""
    ELSE With(Lookup(registry, instance.protoName), LAMBDA definition :
             ResolveISBindings(definition.body,
                               MergedValues(definition.fields, instance.fieldValues,
                                            EmptyMap)))

-----------------------------------------------------------------------------
(* hasProtoInstances, expandAllProtos                                       *)

HasProtoInstancesNever(vrmlText, registry) == FALSE

\* hasProtoInstances: some match of the instance pattern names a registered PROTO
HasProtoInstances(vrmlText, registry) ==
    \E b \in InstancePatternBraces(vrmlText) :
        Has(registry, InstanceMatchName(vrmlText, b))

\* instances.sort((a, b) => b.startIndex - a.startIndex)
RECURSIVE SortByStartDescending(_)
SortByStartDescending(instances) ==
    IF Len(instances) = 0 THEN <<>>
    ELSE With(CHOOSE i \in 1..Len(instances) :
                  \A j \in 1..Len(instances) :
                      /\ instances[j].startIndex <= instances[i].startIndex
                      /\ (instances[j].startIndex = instances[i].startIndex => i <= j),
              LAMBDA k :
             <<instances[k]>> \o
             SortByStartDescending([i \in 1..(Len(instances) - 1) |->
                                       IF i < k THEN instances[i] ELSE instances[i + 1]]))

\* the replacement loop: each instance with a non-empty expansion is cut out at
\* the offsets it was found at and its expansion put there
RECURSIVE ReplaceInstances(_, _, _)
ReplaceInstances(expanded, instances, registry) ==
    IF Len(instances) = 0 THEN expanded
    ELSE With(Head(instances), LAMBDA instance :
         With(ExpandProto(instance, registry), LAMBDA body :
             ReplaceInstances(
                 IF body # ""
                 THEN Substring(expanded, 0, instance.startIndex) \o body
                      \o SubstringFrom(expanded, instance.endIndex)
                 ELSE expanded,
                 Tail(instances), registry)))

\* if (currentDepth >= maxDepth)
DepthCeilingNever(depth, maxDepth) == FALSE
DepthCeilingLate(depth, maxDepth) == depth > maxDepth
DepthCeilingReached(depth, maxDepth) == depth >= maxDepth

\* one recursion level of expandAllProtos, up to its recursive call: the text it
\* has built, and whether it goes on to call itself with currentDepth + 1
ExpandLevel(vrmlText, registry, maxDepth, depth) ==
    IF DepthCeilingReached(depth, maxDepth)
    THEN [text |-> vrmlText, recurse |-> FALSE, replaced |-> FALSE]
    ELSE With(ParseProtoInstances(vrmlText, registry), LAMBDA instances :
             IF Len(instances) = 0
             THEN [text |-> vrmlText, recurse |-> FALSE, replaced |-> FALSE]
             ELSE With(ReplaceInstances(vrmlText, SortByStartDescending(instances),
                                        registry), LAMBDA expanded :
                      [text |-> expanded,
                       recurse |-> HasProtoInstances(expanded, registry),
                       replaced |-> TRUE]))

\* expandAllProtos
RECURSIVE ExpandAllProtos(_, _, _, _)
ExpandAllProtos(vrmlText, registry, maxDepth, depth) ==
    With(ExpandLevel(vrmlText, registry, maxDepth, depth), LAMBDA level :
        IF level.recurse
        THEN ExpandAllProtos(level.text, registry, maxDepth, depth + 1)
        ELSE level.text)

\* the default of the maxDepth parameter
DefaultMaxDepth == 10

-----------------------------------------------------------------------------
(* SpecExpandProto: expandProto applied to one instance of one template.    *)

\* the node property each field of the template is bound to in its body
PropertyOf(fieldName) ==
    CASE fieldName = "size" -> "size"
      [] fieldName = "color" -> "diffuseColor"
      [] OTHER -> "radius"

SizeDefaults == {NumValue(IntNumber(1)), NumValue(MkNumber(25, 1))}
ColorDefault == IntArray(<<1, 0, 0>>)
RadiusDefault == NumValue(IntNumber(1))

\* the declarations of a template: any of size, color and radius, in this order
FieldLists ==
    { (IF withSize THEN <<ProtoField("size", "SFFloat", sizeDefault)>> ELSE <<>>)
      \o (IF withColor THEN <<ProtoField("color", "SFColor", ColorDefault)>> ELSE <<>>)
      \o (IF withRadius THEN <<ProtoField("radius", "SFFloat", RadiusDefault)>> ELSE <<>>) :
         withSize \in BOOLEAN, withColor \in BOOLEAN, withRadius \in BOOLEAN,
         sizeDefault \in SizeDefaults }

\* the body of the template: one IS binding per declared field, one per line
BindingBody(fields) ==
    Join(<<"Shape {">>
         \o [k \in 1..Len(fields) |->
                "  " \o PropertyOf(fields[k].name) \o " IS " \o fields[k].name]
         \o <<"}">>, "\n")

\* the overrides an instance may carry: per field name none, the value of a
\* default, or another value
SizeOverrides == {NullValue, NumValue(IntNumber(1)), NumValue(IntNumber(10))}
ColorOverrides == {NullValue, IntArray(<<1, 0, 0>>),
                   ArrayValue(<<IntNumber(0), MkNumber(5, 1), IntNumber(1)>>)}
RadiusOverrides == {NullValue, NumValue(IntNumber(2))}

OverrideMaps ==
    { [n \in {x \in {"size", "color", "radius"} :
                 (CASE x = "size" -> so [] x = "color" -> co [] OTHER -> ro) # NullValue}
          |-> CASE n = "size" -> so [] n = "color" -> co [] OTHER -> ro] :
         so \in SizeOverrides, co \in ColorOverrides, ro \in RadiusOverrides }

ExpandProtoInputs ==
    { [instance |-> [protoName |-> "Widget", fieldValues |-> fv,
                     startIndex |-> 0, endIndex |-> 0],
       registry |-> IF registered
                    THEN Register(EmptyMap, "Widget",
                                  ProtoDefinition("Widget", fields, BindingBody(fields)))
                    ELSE EmptyMap,
       maxDepth |-> 0, kind |-> "instance"] :
         fields \in FieldLists, fv \in OverrideMaps, registered \in BOOLEAN }

InitExpandProto ==
    /\ expandIn \in ExpandProtoInputs
    /\ expandedText = ""
    /\ pc = "expandProto"
    /\ protos = [r \in RegistryIds |-> EmptyMap]
    /\ history = [r \in RegistryIds |-> <<>>]
    /\ ret = NoCall
    /\ resolveIn = NoResolveIn
    /\ resolvedBody = ""
    /\ currentDepth = 0
    /\ passes = 0
    /\ parseLog = <<>>
    /\ sceneOut = NoScene
    /\ ExtractIdle

\* expandProto(instance, registry)
ExpandProtoCall ==
    /\ pc = "expandProto"
    /\ expandedText' = ExpandProto(expandIn.instance, expandIn.registry)
    /\ pc' = "expandedProto"
    /\ UNCHANGED <<protos, history, ret, resolveIn, resolvedBody, expandIn,
                   currentDepth, passes, parseLog, sceneOut,
                   sourceText, extraction, declText, parsedFields>>

NextExpandProto == ExpandProtoCall

SpecExpandProto == InitExpandProto /\ [][NextExpandProto]_vars

\* String.prototype.split('\n')
RECURSIVE SplitLines(_)
SplitLines(text) ==
    With(IndexOfFrom(text, "\n", 0), LAMBDA k :
        IF k = -1 THEN <<text>>
        ELSE <<Substring(text, 0, k)>> \o SplitLines(SubstringFrom(text, k + 1)))

\* the line of the expanded body that carries the binding of a field to value v
BoundLine(fieldName, v) == "  " \o PropertyOf(fieldName) \o " " \o FormatFieldValue(v)

\* the template looked up for the instance of the call
TemplateOfCall == Lookup(expandIn.registry, expandIn.instance.protoName)

\* C7: when an instance of a registered template has been expanded, the line of
\* every declared field carries the instance's override when the instance has a
\* value under that field name and the declared default otherwise; and where the
\* override differs from the default, that line does not carry the default.
C7_DefaultOverrideMerge ==
    (pc = "expandedProto" /\ TemplateOfCall # Undefined) =>
        LET fields == TemplateOfCall.fields
            fv     == expandIn.instance.fieldValues
            lines  == SplitLines(expandedText)
        IN  /\ Len(lines) = Len(fields) + 2
            /\ \A k \in 1..Len(fields) :
                  LET f == fields[k]
                  IN  /\ f.name \in DOMAIN fv =>
                             lines[k + 1] = BoundLine(f.name, fv[f.name])
                      /\ f.name \notin DOMAIN fv =>
                             lines[k + 1] = BoundLine(f.name, f.defaultValue)
                      /\ (f.name \in DOMAIN fv /\ fv[f.name] # f.defaultValue) =>
                             lines[k + 1] # BoundLine(f.name, f.defaultValue)

\* an expansion in which one field took a differing override and another its default
C7_Witness ==
    /\ pc = "expandedProto"
    /\ TemplateOfCall # Undefined
    /\ Len(TemplateOfCall.fields) = 3
    /\ "size" \in DOMAIN expandIn.instance.fieldValues
    /\ expandIn.instance.fieldValues["size"] = NumValue(IntNumber(10))
    /\ "color" \notin DOMAIN expandIn.instance.fieldValues
    /\ SplitLines(expandedText)[2] = "  size 10"
    /\ SplitLines(expandedText)[3] = "  diffuseColor 1 0 0"

-----------------------------------------------------------------------------
(* SpecExpand: expandAllProtos, one recursion level per step, on nested and *)
(* on circular templates.                                                   *)

\* the replacement passes one call is followed for (more than any ceiling used)
MaxPasses == 12

\* a template whose body binds its colour, used by a template whose body binds
\* its translation; the inner override is written literally
Nest2Input(colorField, posField, colorValue, posValue) ==
    LET inner == ProtoDefinition("InnerA",
                     <<ProtoField(colorField, "SFColor", colorValue)>>,
                     "Shape {\n  appearance Appearance {\n    material Material {\n"
                     \o "      diffuseColor IS " \o colorField
                     \o "\n    }\n  }\n  geometry Sphere { radius 1 }\n}")
        outer == ProtoDefinition("OuterA",
                     <<ProtoField(posField, "SFVec3f", posValue)>>,
                     "Transform {\n  translation IS " \o posField
                     \o "\n  children [\n    InnerA {\n      " \o colorField \o " "
                     \o FormatFieldValue(colorValue) \o "\n    }\n  ]\n}")
    IN  [vrmlText |-> "OuterA {\n  " \o posField \o " " \o FormatFieldValue(posValue)
                      \o "\n}",
         registry |-> Register(Register(EmptyMap, "InnerA", inner), "OuterA", outer),
         maxDepth |-> DefaultMaxDepth,
         names    |-> {"InnerA", "OuterA"},
         kind     |-> "nest2"]

\* a chain of three templates; the overrides are written literally
Nest3Input(radius, color) ==
    LET level0 == ProtoDefinition("Level0A", <<ProtoField("rad", "SFFloat", radius)>>,
                      "Shape {\n  appearance Appearance {\n"
                      \o "    material Material { diffuseColor 1 1 1 }\n  }\n"
                      \o "  geometry Sphere { radius IS rad }\n}")
        level1 == ProtoDefinition("Level1A", <<ProtoField("col", "SFColor", color)>>,
                      "Transform {\n  translation 0 0 0\n  children [\n    Level0A { rad "
                      \o FormatFieldValue(radius) \o " }\n  ]\n}")
        level2 == ProtoDefinition("Level2A", <<>>,
                      "Group {\n  children [\n    Level1A { col "
                      \o FormatFieldValue(color) \o " }\n  ]\n}")
    IN  [vrmlText |-> "Level2A { }",
         registry |-> Register(Register(Register(EmptyMap, "Level0A", level0),
                                        "Level1A", level1), "Level2A", level2),
         maxDepth |-> DefaultMaxDepth,
         names    |-> {"Level0A", "Level1A", "Level2A"},
         kind     |-> "nest3"]

\* a template whose usage of the inner template binds the inner override with IS
\* to its own field; the inner body binds its size once, or three times in a row
NestOverrideInput(defaultSize, overrideSize, bindings) ==
    LET base    == ProtoDefinition("BaseA", <<ProtoField("size", "SFFloat", defaultSize)>>,
                       "Shape {\n  appearance Appearance {\n"
                       \o "    material Material { diffuseColor 1 0 0 }\n  }\n"
                       \o "  geometry Box { " \o bindings \o " }\n}")
        wrapper == ProtoDefinition("WrapperA",
                       <<ProtoField("boxSize", "SFFloat", overrideSize)>>,
                       "Transform {\n  translation 0 0 0\n  children [\n"
                       \o "    BaseA { size IS boxSize }\n  ]\n}")
    IN  [vrmlText |-> "WrapperA { boxSize " \o FormatFieldValue(overrideSize) \o " }",
         registry |-> Register(Register(EmptyMap, "BaseA", base), "WrapperA", wrapper),
         maxDepth |-> DefaultMaxDepth,
         names    |-> {"BaseA", "WrapperA"},
         kind     |-> "nestOverride"]

\* a template that uses itself, or two templates that use each other
CycleInput(mutual, maxDepth) ==
    LET protoA == ProtoDefinition("ProtoAX", <<>>,
                      "Transform {\n  children [\n    "
                      \o (IF mutual THEN "ProtoBX" ELSE "ProtoAX") \o " { }\n  ]\n}")
        protoB == ProtoDefinition("ProtoBX", <<>>,
                      "Transform {\n  children [\n    ProtoAX { }\n  ]\n}")
    IN  [vrmlText |-> "ProtoAX { }",
         registry |-> IF mutual
                      THEN Register(Register(EmptyMap, "ProtoAX", protoA), "ProtoBX", protoB)
                      ELSE Register(EmptyMap, "ProtoAX", protoA),
         maxDepth |-> maxDepth,
         names    |-> IF mutual THEN {"ProtoAX", "ProtoBX"} ELSE {"ProtoAX"},
         kind     |-> "cycle"]

\* a chain of k templates, each using the one before it in its only child; the
\* text uses the last
LinkName(i) == "Link" \o IntToDigits(i)
LinkDefinition(i) ==
    ProtoDefinition(LinkName(i), <<>>,
                    IF i = 1 THEN "Shape { geometry Sphere { } }"
                    ELSE "Group { children [ " \o LinkName(i - 1) \o " { } ] }")
RECURSIVE LinkRegistry(_)
LinkRegistry(k) ==
    IF k = 0 THEN EmptyMap
    ELSE Register(LinkRegistry(k - 1), LinkName(k), LinkDefinition(k))
ChainInput(k, maxDepth) ==
    [vrmlText |-> LinkName(k) \o " { }",
     registry |-> LinkRegistry(k),
     maxDepth |-> maxDepth,
     names    |-> {LinkName(i) : i \in 1..k},
     kind     |-> "chain"]

\* the nodes around the usages of a framed text: no template has their names
FramedBefore == "Shape { geometry Cone { } }\n"
FramedAfter == "\nTransform { translation 1 2 3 }"

\* the usages of a framed text: two usages side by side, a usage in the children
\* of a node that is no usage, a usage in the braces of another usage, a usage
\* followed by a template name whose brace is never closed
SideBySideUsages == "Part { size 2 }\nWrap { }"
UsageInNode == "Transform { children [ Part { size 2 } ] }"
UsageInUsage == "Wrap { children [ Part { size 2.50 } ] }"
UnclosedUsage == "Wrap { }\nPart { size 2"
FramedUsages == {SideBySideUsages, UsageInNode, UsageInUsage, UnclosedUsage}

\* the bodies of Part: shorter, and longer, than a usage of Part
PartBodies == {"Box { }", "Shape {\n  geometry Box { size IS size }\n}"}
WrapBody == "Group { children [ Shape { geometry Sphere { } } ] }"

\* usages of Part and Wrap between two nodes of other types
FramedInput(usages, partBody) ==
    [vrmlText |-> FramedBefore \o usages \o FramedAfter,
     registry |-> Register(Register(EmptyMap, "Part",
                      ProtoDefinition("Part",
                          <<ProtoField("size", "SFFloat", NumValue(IntNumber(1)))>>,
                          partBody)),
                      "Wrap", ProtoDefinition("Wrap", <<>>, WrapBody)),
     maxDepth |-> DefaultMaxDepth,
     names    |-> {"Part", "Wrap"},
     kind     |-> "framed"]

\* the same texts with a registry that has none of their identifiers: an empty
\* one, or one with another template
UnregisteredInput(usages, withOther) ==
    [vrmlText |-> FramedBefore \o usages \o FramedAfter,
     registry |-> IF withOther
                  THEN Register(EmptyMap, "Widget", ProtoDefinition("Widget", <<>>, WrapBody))
                  ELSE EmptyMap,
     maxDepth |-> DefaultMaxDepth,
     names    |-> IF withOther THEN {"Widget"} ELSE {},
     kind     |-> "unregistered"]

\* a template Thing with two fields of one type, first and second, bound in its
\* body one to a line; the names of the two: the second a suffix of the first,
\* the two differing in letter case only, the two unrelated
AnchorNames == {<<"boxSize", "size">>, <<"Radius", "radius">>, <<"width", "height">>}
AnchorTypes == {"SFFloat", "SFColor"}
AnchorDefault(type) ==
    IF type = "SFFloat" THEN NumValue(IntNumber(1)) ELSE IntArray(<<1, 0, 0>>)

\* the default of a field as the body shows it, and the values a usage writes
\* for the first and for the second field
DefaultText(type) == IF type = "SFFloat" THEN "1" ELSE "1 0 0"
FirstText(type) == IF type = "SFFloat" THEN "2" ELSE "0 1 0"
SecondText(type) == IF type = "SFFloat" THEN "3" ELSE "0 0 1"

\* what a usage writes: the first field, the second, both in either order,
\* nothing, or the first after a token that names no field
AnchorWritings == {"first", "second", "both", "swapped", "none", "other"}
AnchorUsage(fieldNames, type, writing) ==
    "Thing { "
    \o (CASE writing = "first" -> fieldNames[1] \o " " \o FirstText(type) \o " "
          [] writing = "second" -> fieldNames[2] \o " " \o SecondText(type) \o " "
          [] writing = "both" -> fieldNames[1] \o " " \o FirstText(type) \o " "
                                 \o fieldNames[2] \o " " \o SecondText(type) \o " "
          [] writing = "swapped" -> fieldNames[2] \o " " \o SecondText(type) \o " "
                                    \o fieldNames[1] \o " " \o FirstText(type) \o " "
          [] writing = "other" -> "depth 7 " \o fieldNames[1] \o " " \o FirstText(type)
                                  \o " "
          [] OTHER -> "")
    \o "}"
AnchorInput(fieldNames, type, writing) ==
    [vrmlText |-> AnchorUsage(fieldNames, type, writing),
     registry |-> Register(EmptyMap, "Thing",
                      ProtoDefinition("Thing",
                          <<ProtoField(fieldNames[1], type, AnchorDefault(type)),
                            ProtoField(fieldNames[2], type, AnchorDefault(type))>>,
                          "Pair {\n  first IS " \o fieldNames[1]
                          \o "\n  second IS " \o fieldNames[2] \o "\n}")),
     maxDepth |-> DefaultMaxDepth,
     names    |-> {"Thing"},
     kind     |-> "anchor"]

\* a registered template Blank with the empty text as its body, used alone or
\* before a usage of Part, between nodes that are no usages
BlankUsages == {"Blank { }", "Blank { }\nPart { size 2 }"}
BlankInput(usages, maxDepth) ==
    [vrmlText |-> FramedBefore \o usages \o FramedAfter,
     registry |-> Register(Register(EmptyMap, "Blank", ProtoDefinition("Blank", <<>>, "")),
                           "Part",
                           ProtoDefinition("Part",
                               <<ProtoField("size", "SFFloat", NumValue(IntNumber(1)))>>,
                               "Box { }")),
     maxDepth |-> maxDepth,
     names    |-> {"Blank", "Part"},
     kind     |-> "blank"]

\* bound on the length of a chain of templates
MaxChain == 4

ColorValues == {IntArray(<<1, 0, 0>>),
                ArrayValue(<<MkNumber(25, 2), MkNumber(5, 1), IntNumber(1)>>)}
PosValues == {IntArray(<<1, 2, 3>>),
              ArrayValue(<<MkNumber(-25, 1), IntNumber(0), IntNumber(10)>>)}
RadiusValues == {NumValue(MkNumber(5, 1)), NumValue(IntNumber(2))}
DefaultSizes == {NumValue(IntNumber(1)), NumValue(MkNumber(25, 1))}
OverrideSizes == {NumValue(IntNumber(5)), NumValue(MkNumber(35, 1))}
SizeBindings == {"size IS size", "size IS size IS size IS size"}
Ceilings == {0, 1, 2, 3, DefaultMaxDepth}

ExpandInputs ==
    {Nest2Input(cf, pf, cv, pv) :
             cf \in {"c", "tint"}, pf \in {"p", "translation"},
             cv \in ColorValues, pv \in PosValues}
    \cup {Nest3Input(r, c) : r \in RadiusValues, c \in ColorValues}
    \cup {NestOverrideInput(d, o, b) :
             d \in DefaultSizes, o \in OverrideSizes, b \in SizeBindings}
    \cup {CycleInput(m, d) : m \in BOOLEAN, d \in Ceilings}
    \cup {ChainInput(k, d) : k \in 1..MaxChain, d \in Ceilings}
    \cup {FramedInput(u, b) : u \in FramedUsages, b \in PartBodies}
    \cup {UnregisteredInput(u, w) : u \in FramedUsages, w \in BOOLEAN}
    \cup {AnchorInput(n, t, w) : n \in AnchorNames, t \in AnchorTypes, w \in AnchorWritings}
    \cup {BlankInput(u, d) : u \in BlankUsages, d \in Ceilings}

InitExpand ==
    /\ expandIn \in ExpandInputs
    /\ expandedText = expandIn.vrmlText
    /\ currentDepth = 0
    /\ passes = 0
    /\ pc = "expand"
    /\ protos = [r \in RegistryIds |-> EmptyMap]
    /\ history = [r \in RegistryIds |-> <<>>]
    /\ ret = NoCall
    /\ resolveIn = NoResolveIn
    /\ resolvedBody = ""
    /\ parseLog = <<>>
    /\ sceneOut = NoScene
    /\ ExtractIdle

\* what a level does with the text it has built: return it, or call itself on it
ExpandReturnOrRecurse(level) ==
    /\ expandedText' = level.text
    /\ passes' = IF level.replaced THEN passes + 1 ELSE passes
    /\ currentDepth' = IF level.recurse THEN currentDepth + 1 ELSE currentDepth
    /\ pc' = IF level.recurse THEN "expand" ELSE "expanded"

\* one recursion level of expandAllProtos(expandedText, registry, maxDepth,
\* currentDepth): it returns, or it calls itself on the text it has built; the
\* callers hand the returned text on as it is
ExpandStep ==
    /\ pc = "expand"
    /\ passes < MaxPasses
    /\ ExpandReturnOrRecurse(ExpandLevel(expandedText, expandIn.registry,
                                         expandIn.maxDepth, currentDepth))
    /\ UNCHANGED <<protos, history, ret, resolveIn, resolvedBody, expandIn,
                   parseLog, sceneOut,
                   sourceText, extraction, declText, parsedFields>>

NextExpand == ExpandStep

SpecExpand == InitExpand /\ [][NextExpand]_vars

\* the call has returned
Expanded == pc = "expanded"

\* C8: when expandAllProtos with the default ceiling has returned for a usage of
\* a template whose body uses another registered template (two levels, or a
\* chain of three), the text holds none of the template names and no IS keyword.
C8_NestedFullyExpanded ==
    (Expanded /\ expandIn.kind \in {"nest2", "nest3", "nestOverride"}) =>
        /\ \A n \in expandIn.names : ~Includes(expandedText, n)
        /\ ~HasISKeyword(expandedText)

\* the returned text of a two-level expansion whose inner body binds its size
\* three times in a row: the override is in place and an IS keyword is left
C8_Witness ==
    /\ Expanded
    /\ expandIn.kind = "nestOverride"
    /\ passes = 2
    /\ Includes(expandedText, "geometry Box { size 5 IS size 5 }")
    /\ HasISKeyword(expandedText)

\* C9: expandAllProtos called on a usage of a template that uses itself, or of
\* one of two templates that use each other, returns after at most maxDepth
\* replacement passes with a text that is not empty: the passes and the depth
\* never exceed maxDepth, a level that is running can always take its step, every
\* step either returns or goes one level deeper, and the returned text is not
\* empty.
C9_CycleGuard ==
    /\ [](expandIn.kind = "cycle" =>
             /\ passes <= expandIn.maxDepth
             /\ currentDepth <= expandIn.maxDepth
             /\ (pc = "expand" => passes < MaxPasses)
             /\ (Expanded => expandedText # ""))
    /\ [][expandIn.kind = "cycle" =>
             \/ pc' = "expanded"
             \/ (pc' = "expand" /\ currentDepth' = currentDepth + 1)]_vars

\* the call on two templates that use each other has returned at the default
\* ceiling, with a usage still in the text
C9_Witness ==
    /\ Expanded
    /\ expandIn.kind = "cycle"
    /\ expandIn.names = {"ProtoAX", "ProtoBX"}
    /\ expandIn.maxDepth = DefaultMaxDepth
    /\ passes = DefaultMaxDepth
    /\ currentDepth = DefaultMaxDepth
    /\ HasProtoInstances(expandedText, expandIn.registry)


-----------------------------------------------------------------------------
(* extractProtoBlocks, parseProtoFields, parseFieldValue,                   *)
(* parseProtoDefinition (protoParser.ts).                                   *)

\* parseFieldValue(type, valueStr)
ParseFieldValue(type, valueStr) ==
    CASE type = "SFFloat" -> NumValue(ParseFloat(Trim(valueStr)))
      [] type \in {"SFVec3f", "SFColor"} ->
            ArrayValue(Slice0(MapNumber(SplitSpaces(Trim(valueStr))), 3))
      [] type = "SFRotation" ->
            ArrayValue(Slice0(MapNumber(SplitSpaces(Trim(valueStr))), 4))
      [] OTHER -> StrValue(Trim(valueStr))

\* the alternation (SFFloat|SFVec3f|SFRotation|SFColor|SFNode|MFNode) of fieldPattern
FieldTypes == {"SFFloat", "SFVec3f", "SFRotation", "SFColor", "SFNode", "MFNode"}

\* the lookahead (?=\s*(?:field|$)) of fieldPattern at offset p
FieldLookahead(fieldText, p) ==
    With(RunEnd(fieldText, p, SpaceChars), LAMBDA e :
        e = Len(fieldText) \/ MatchAt(fieldText, e, "field"))

\* ([^\n]+?) of fieldPattern started at offset v: the end of the shortest run of
\* characters other than "\n" after which the lookahead holds, or -1
FieldValueEnd(fieldText, v) ==
    IF v >= Len(fieldText) \/ CharAt(fieldText, v) = "\n" THEN -1
    ELSE With(IndexOfFrom(fieldText, "\n", v), LAMBDA n :
         With({p \in (v + 1)..(IF n = -1 THEN Len(fieldText) ELSE n) :
                  FieldLookahead(fieldText, p)}, LAMBDA S :
             IF S = {} THEN -1 ELSE Min(S)))

\* the tail \s+([^\n]+?)(?=...) of fieldPattern after the field name that ends at
\* nameEnd: \s+ takes the whole run of white space and gives characters back, one
\* at a time, until the value and the lookahead match
FieldValueMatch(fieldText, type, name, nameEnd) ==
    With({v \in (nameEnd + 1)..RunEnd(fieldText, nameEnd, SpaceChars) :
             FieldValueEnd(fieldText, v) # -1}, LAMBDA V :
        IF V = {} THEN [ok |-> FALSE, type |-> "", name |-> "", value |-> "", end |-> -1]
        ELSE [ok |-> TRUE, type |-> type, name |-> name,
              value |-> Substring(fieldText, Max(V), FieldValueEnd(fieldText, Max(V))),
              end |-> FieldValueEnd(fieldText, Max(V))])

\* the head field\s+(type)\s+(\w+) of fieldPattern with the type that ends at typeEnd
FieldNameMatch(fieldText, type, typeEnd) ==
    With(RunEnd(fieldText, typeEnd, SpaceChars), LAMBDA nameStart :
    With(RunEnd(fieldText, nameStart, WordChars), LAMBDA nameEnd :
        IF nameStart = typeEnd \/ nameEnd = nameStart
        THEN [ok |-> FALSE, type |-> "", name |-> "", value |-> "", end |-> -1]
        ELSE FieldValueMatch(fieldText, type,
                             Substring(fieldText, nameStart, nameEnd), nameEnd)))

\* fieldPattern matched at offset i
FieldMatchAt(fieldText, i) ==
    With(RunEnd(fieldText, i + 5, SpaceChars), LAMBDA typeStart :
    With({t \in FieldTypes : MatchAt(fieldText, typeStart, t)}, LAMBDA T :
        IF ~MatchAt(fieldText, i, "field") \/ typeStart = i + 5 \/ T = {}
        THEN [ok |-> FALSE, type |-> "", name |-> "", value |-> "", end |-> -1]
        ELSE With(CHOOSE t \in T : TRUE, LAMBDA type :
                 FieldNameMatch(fieldText, type, typeStart + Len(type)))))

\* parseProtoFields: fieldPattern.exec from lastIndex on, until it returns null
RECURSIVE ParseProtoFieldsFrom(_, _)
ParseProtoFieldsFrom(fieldText, lastIndex) ==
    With({i \in lastIndex..Len(fieldText) : FieldMatchAt(fieldText, i).ok}, LAMBDA S :
        IF S = {} THEN <<>>
        ELSE With(FieldMatchAt(fieldText, Min(S)), LAMBDA match :
                 <<ProtoField(match.name, match.type,
                              ParseFieldValue(match.type, Trim(match.value)))>>
                 \o ParseProtoFieldsFrom(fieldText, match.end)))

ParseProtoFields(fieldText) == ParseProtoFieldsFrom(fieldText, 0)

\* parseProtoDefinition
ParseProtoDefinition(name, fieldText, bodyText) ==
    ProtoDefinition(name, ParseProtoFields(fieldText), Trim(bodyText))

\* /PROTO\s+(\w+)\s*\[/ matched at offset i: the offset after its "[", or -1
ProtoPatternEnd(vrmlText, i) ==
    With(RunEnd(vrmlText, i + 5, SpaceChars), LAMBDA nameStart :
    With(RunEnd(vrmlText, nameStart, WordChars), LAMBDA nameEnd :
    With(RunEnd(vrmlText, nameEnd, SpaceChars), LAMBDA bracket :
        IF /\ MatchAt(vrmlText, i, "PROTO")
           /\ nameStart > i + 5
           /\ nameEnd > nameStart
           /\ CharAt(vrmlText, bracket) = "["
        THEN bracket + 1 ELSE -1)))

\* match[1] of the match of /PROTO\s+(\w+)\s*\[/ at offset i
ProtoPatternName(vrmlText, i) ==
    With(RunEnd(vrmlText, i + 5, SpaceChars), LAMBDA nameStart :
        Substring(vrmlText, nameStart, RunEnd(vrmlText, nameStart, WordChars)))

\* one iteration of the while loop of extractProtoBlocks for the match at
\* protoStart whose field list starts at fieldsStart: the block it pushes, or
\* a block with ok FALSE where the loop continues without one
ProtoBlockOf(vrmlText, protoStart, fieldsStart) ==
    With(MatchingEnd(vrmlText, fieldsStart - 1, "[", "]"), LAMBDA fieldsEnd :
    With(IndexOfFrom(vrmlText, "{", fieldsEnd), LAMBDA bodyStart :
    With(MatchingEnd(vrmlText, bodyStart, "{", "}"), LAMBDA bodyEnd :
        IF fieldsEnd = -1 \/ bodyStart = -1 \/ bodyEnd = -1
        THEN [ok |-> FALSE, start |-> protoStart, end |-> protoStart,
              definition |-> Undefined]
        ELSE [ok |-> TRUE, start |-> protoStart, end |-> bodyEnd,
              definition |->
                  ParseProtoDefinition(
                      ProtoPatternName(vrmlText, protoStart),
                      Substring(vrmlText, fieldsStart, fieldsEnd - 1),
                      Substring(vrmlText, bodyStart + 1, bodyEnd - 1))])))

\* protoBlocks, in the order the matches are found
ProtoBlocksUntilMalformed(vrmlText) ==
    With(SortedSeq({i \in 0..Len(vrmlText) : ProtoPatternEnd(vrmlText, i) # -1}),
         LAMBDA starts :
    With([k \in 1..Len(starts) |->
             ProtoBlockOf(vrmlText, starts[k], ProtoPatternEnd(vrmlText, starts[k]))],
         LAMBDA blocks :
        SubSeq(blocks, 1,
               Min({k \in 1..(Len(blocks) + 1) : k > Len(blocks) \/ ~blocks[k].ok}) - 1)))
ProtoBlocks(vrmlText) ==
    With(SortedSeq({i \in 0..Len(vrmlText) : ProtoPatternEnd(vrmlText, i) # -1}),
         LAMBDA starts :
    With([k \in 1..Len(starts) |->
             ProtoBlockOf(vrmlText, starts[k], ProtoPatternEnd(vrmlText, starts[k]))],
         LAMBDA blocks :
        SelectSeq(blocks, LAMBDA b : b.ok)))

\* the removal loop: the blocks are cut out of cleanedText from the last to the first
RECURSIVE RemoveBlocks(_, _)
RemoveBlocks(cleanedText, blocks) ==
    IF Len(blocks) = 0 THEN cleanedText
    ELSE With(blocks[Len(blocks)], LAMBDA block :
             RemoveBlocks(Substring(cleanedText, 0, block.start)
                          \o SubstringFrom(cleanedText, block.end),
                          SubSeq(blocks, 1, Len(blocks) - 1)))

\* extractProtoBlocks
ExtractProtoBlocks(vrmlText) ==
    With(ProtoBlocks(vrmlText), LAMBDA blocks :
        [protos |-> [k \in 1..Len(blocks) |-> blocks[k].definition],
         cleanedText |-> RemoveBlocks(vrmlText, blocks)])

-----------------------------------------------------------------------------
(* parseShapeNode and rgbToHex (vrmlParser.ts).                             *)

\* an optional property of a Shape: <<>> when undefined, <<v>> when set
None == <<>>
Some(v) == <<v>>

\* x || d for a number x that may be undefined (index past the end of arr)
OrDefault(arr, k, d) ==
    IF k > Len(arr) \/ arr[k].nan \/ arr[k].mant = 0 THEN d ELSE arr[k]

HexAlphabet == "0123456789abcdef"

\* Number.prototype.toString(16) for an integer n >= 0
RECURSIVE ToHexDigits(_)
ToHexDigits(n) ==
    IF n < 16 THEN CharAt(HexAlphabet, n)
    ELSE ToHexDigits(n \div 16) \o CharAt(HexAlphabet, n % 16)

\* Math.round(n * 255) for n >= 0: the nearest integer, a half rounded up
Round255(n) == (2 * 255 * n.mant + Pow10(n.scale)) \div (2 * Pow10(n.scale))

\* toHex of rgbToHex: Math.round(n * 255).toString(16).padStart(2, '0')
ToHex(n) ==
    With(ToHexDigits(Round255(n)), LAMBDA h : IF Len(h) < 2 THEN "0" \o h ELSE h)

\* rgbToHex
RgbToHex(r, g, b) == "#" \o ToHex(r) \o ToHex(g) \o ToHex(b)

\* The first match of /keyword\s+([C]+)/ in content (letter case of the keyword
\* ignored under the i flag), as [ok, cap].  \s+ takes the whole run of white
\* space and gives characters back until a character of C follows.
KeywordCaptureAt(content, i, keyword, C) ==
    With({k \in (i + Len(keyword) + 1)..RunEnd(content, i + Len(keyword), SpaceChars) :
             CharAt(content, k) \in C}, LAMBDA K :
        IF K = {} THEN [ok |-> FALSE, cap |-> ""]
        ELSE [ok |-> TRUE, cap |-> Substring(content, Max(K), RunEnd(content, Max(K), C))])

KeywordCapture(content, keyword, C, ignoreCase) ==
    With({i \in 0..Len(content) :
             /\ IF ignoreCase THEN MatchAtIgnoreCase(content, i, keyword)
                ELSE MatchAt(content, i, keyword)
             /\ KeywordCaptureAt(content, i, keyword, C).ok}, LAMBDA S :
        IF S = {} THEN [ok |-> FALSE, cap |-> ""]
        ELSE KeywordCaptureAt(content, Min(S), keyword, C))

\* the character classes [\d\.\s], [\d\.] and [\d\.\-\s]
ColorClass == Digits \cup {"."} \cup SpaceChars
FloatClass == Digits \cup {"."}
VectorClass == Digits \cup {".", "-"} \cup SpaceChars

\* /keyword/i.test(content)
TestIgnoreCase(content, keyword) ==
    \E i \in 0..Len(content) : MatchAtIgnoreCase(content, i, keyword)

\* match[1].trim().split(/\s+/).map(Number)
NumbersOf(cap) == MapNumber(SplitSpaces(Trim(cap)))

\* the color of a matched diffuseColor or emissiveColor
ColorOf(cap) ==
    With(NumbersOf(cap), LAMBDA rgb :
        RgbToHex(OrDefault(rgb, 1, IntNumber(0)), OrDefault(rgb, 2, IntNumber(0)),
                 OrDefault(rgb, 3, IntNumber(0))))

\* m ? parseFloat(m[1]) : d
FloatOr(m, d) == IF m.ok THEN ParseFloat(m.cap) ELSE d

\* The first match of /keyword\s*\[([\s\S]*?)\]/i in content: [ok, cap], cap the
\* text between the "[" and the first "]" after it
BracketCapture(content, keyword) ==
    With({i \in 0..Len(content) :
             /\ MatchAtIgnoreCase(content, i, keyword)
             /\ CharAt(content, RunEnd(content, i + Len(keyword), SpaceChars)) = "["
             /\ IndexOfFrom(content, "]", i) # -1}, LAMBDA S :
        IF S = {} THEN [ok |-> FALSE, cap |-> ""]
        ELSE With(RunEnd(content, Min(S) + Len(keyword), SpaceChars), LAMBDA open :
                 [ok |-> TRUE,
                  cap |-> Substring(content, open + 1,
                                    IndexOfFrom(content, "]", open))]))

\* str.replace(/,/g, ' ')
RECURSIVE CommasToSpaces(_)
CommasToSpaces(str) ==
    With(IndexOfFrom(str, ",", 0), LAMBDA k :
        IF k = -1 THEN str
        ELSE Substring(str, 0, k) \o " " \o CommasToSpaces(SubstringFrom(str, k + 1)))

\* cap.replace(/,/g, ' ').trim().split(/\s+/).map(Number).filter(n => !isNaN(n))
NumberList(cap) ==
    SelectSeq(NumbersOf(CommasToSpaces(cap)), LAMBDA n : ~n.nan)

MinusOne == IntNumber(-1)

\* the pairs of neighbours of a line strip
StripSegments(strip) ==
    IF Len(strip) < 2 THEN <<>>
    ELSE [k \in 1..(2 * (Len(strip) - 1)) |-> strip[((k + 1) \div 2) + ((k + 1) % 2)]]

\* the fan triangulation of a face
FaceTriangles(face) ==
    IF Len(face) < 3 THEN <<>>
    ELSE [k \in 1..(3 * (Len(face) - 2)) |->
             IF k % 3 = 1 THEN face[1] ELSE face[((k - 1) \div 3) + 1 + ((k - 1) % 3)]]

\* the loops over rawIndices: a -1 closes the current strip or face, whose
\* segments or triangles are pushed; what follows the last -1 is dropped
RECURSIVE IndicesOf(_, _, _)
IndicesOf(rawIndices, current, asFaces) ==
    IF Len(rawIndices) = 0 THEN <<>>
    ELSE IF Head(rawIndices) = MinusOne
    THEN (IF asFaces THEN FaceTriangles(current) ELSE StripSegments(current))
         \o IndicesOf(Tail(rawIndices), <<>>, asFaces)
    ELSE IndicesOf(Tail(rawIndices), Append(current, Head(rawIndices)), asFaces)

\* a Shape object; the properties left undefined are None
Shape(position, color, geometry) ==
    [position |-> position, color |-> color, geometry |-> geometry,
     emissiveColor |-> None, transparency |-> None, size |-> None, radius |-> None,
     height |-> None, vertices |-> None, indices |-> None, rotation |-> None,
     scale |-> None]

DefaultColor == "#4CC3D9"
Origin == <<IntNumber(0), IntNumber(0), IntNumber(0)>>

\* the color, emissiveColor and transparency parseShapeNode reads from content
Material(content, shape) ==
    With(KeywordCapture(content, "diffuseColor", ColorClass, FALSE), LAMBDA colorMatch :
    With(KeywordCapture(content, "emissiveColor", ColorClass, FALSE), LAMBDA emissiveMatch :
    With(KeywordCapture(content, "transparency", FloatClass, FALSE),
         LAMBDA transparencyMatch :
        [shape EXCEPT
            !.color = IF colorMatch.ok THEN ColorOf(colorMatch.cap) ELSE DefaultColor,
            !.emissiveColor = IF emissiveMatch.ok THEN Some(ColorOf(emissiveMatch.cap))
                              ELSE None,
            !.transparency = IF transparencyMatch.ok
                             THEN Some(ParseFloat(transparencyMatch.cap)) ELSE None])))

\* vertices and indices of an IndexedLineSet or IndexedFaceSet
IndexedSet(content, shape, asFaces) ==
    With(BracketCapture(content, "point"), LAMBDA pointMatch :
    With(BracketCapture(content, "coordIndex"), LAMBDA indexMatch :
        [shape EXCEPT
            !.vertices = Some(IF pointMatch.ok THEN NumberList(pointMatch.cap) ELSE <<>>),
            !.indices = Some(IF indexMatch.ok
                             THEN IndicesOf(NumberList(indexMatch.cap), <<>>, asFaces)
                             ELSE <<>>)]))

\* size of a Box: set only when the size pattern matches
BoxSize(content, shape) ==
    With(KeywordCapture(content, "size", ColorClass, TRUE), LAMBDA sizeMatch :
        IF ~sizeMatch.ok THEN shape
        ELSE With(NumbersOf(sizeMatch.cap), LAMBDA dims :
                 [shape EXCEPT !.size = Some(<<OrDefault(dims, 1, IntNumber(1)),
                                               OrDefault(dims, 2, IntNumber(1)),
                                               OrDefault(dims, 3, IntNumber(1))>>)]))

\* radius and height of a Cylinder or Cone
RadiusHeight(content, shape, radiusKeyword) ==
    [shape EXCEPT
        !.radius = Some(FloatOr(KeywordCapture(content, radiusKeyword, FloatClass, TRUE),
                                IntNumber(1))),
        !.height = Some(FloatOr(KeywordCapture(content, "height", FloatClass, TRUE),
                                IntNumber(2)))]

\* parseShapeNode with the six tests made in the reverse order
ParseShapeNodeReversed(content, defaultPosition) ==
    With(Material(content, Shape(defaultPosition, DefaultColor, "")), LAMBDA shape :
        IF TestIgnoreCase(content, "Cone")
        THEN Some(RadiusHeight(content, [shape EXCEPT !.geometry = "cone"],
                               "bottomRadius"))
        ELSE IF TestIgnoreCase(content, "Cylinder")
        THEN Some(RadiusHeight(content, [shape EXCEPT !.geometry = "cylinder"], "radius"))
        ELSE IF TestIgnoreCase(content, "Box")
        THEN Some(BoxSize(content, [shape EXCEPT !.geometry = "box"]))
        ELSE IF TestIgnoreCase(content, "Sphere")
        THEN Some([shape EXCEPT
                      !.geometry = "sphere",
                      !.radius = Some(FloatOr(KeywordCapture(content, "radius",
                                                             FloatClass, TRUE),
                                              IntNumber(1)))])
        ELSE IF TestIgnoreCase(content, "IndexedFaceSet")
        THEN Some(IndexedSet(content, [shape EXCEPT !.geometry = "mesh"], TRUE))
        ELSE IF TestIgnoreCase(content, "IndexedLineSet")
        THEN Some(IndexedSet(content, [shape EXCEPT !.geometry = "lines"], FALSE))
        ELSE None)

\* parseShapeNode(content, defaultPosition): <<>> for null, <<shape>> otherwise
ParseShapeNode(content, defaultPosition) ==
    With(Material(content, Shape(defaultPosition, DefaultColor, "")), LAMBDA shape :
        IF TestIgnoreCase(content, "IndexedLineSet")
        THEN Some(IndexedSet(content, [shape EXCEPT !.geometry = "lines"], FALSE))
        ELSE IF TestIgnoreCase(content, "IndexedFaceSet")
        THEN Some(IndexedSet(content, [shape EXCEPT !.geometry = "mesh"], TRUE))
        ELSE IF TestIgnoreCase(content, "Sphere")
        THEN Some([shape EXCEPT
                      !.geometry = "sphere",
                      !.radius = Some(FloatOr(KeywordCapture(content, "radius",
                                                             FloatClass, TRUE),
                                              IntNumber(1)))])
        ELSE IF TestIgnoreCase(content, "Box")
        THEN Some(BoxSize(content, [shape EXCEPT !.geometry = "box"]))
        ELSE IF TestIgnoreCase(content, "Cylinder")
        THEN Some(RadiusHeight(content, [shape EXCEPT !.geometry = "cylinder"], "radius"))
        ELSE IF TestIgnoreCase(content, "Cone")
        THEN Some(RadiusHeight(content, [shape EXCEPT !.geometry = "cone"],
                               "bottomRadius"))
        ELSE None)

-----------------------------------------------------------------------------
(* parseVRML (vrmlParser.ts).                                               *)

\* /DEF\s+\w+\s+/ matched at offset i: the end of the match, or -1
DefPatternEnd(text, i) ==
    With(RunEnd(text, i + 3, SpaceChars), LAMBDA nameStart :
    With(RunEnd(text, nameStart, WordChars), LAMBDA nameEnd :
    With(RunEnd(text, nameEnd, SpaceChars), LAMBDA end :
        IF /\ MatchAt(text, i, "DEF")
           /\ nameStart > i + 3
           /\ nameEnd > nameStart
           /\ end > nameEnd
        THEN end ELSE -1)))

\* vrmlText.replace(/DEF\s+\w+\s+/g, ''), from offset from on
RECURSIVE RemoveDEF(_, _)
RemoveDEF(text, from) ==
    With({i \in from..Len(text) : DefPatternEnd(text, i) # -1}, LAMBDA S :
        IF S = {} THEN SubstringFrom(text, from)
        ELSE Substring(text, from, Min(S)) \o RemoveDEF(text, DefPatternEnd(text, Min(S))))

\* The matches of /keyword\s*\{/g: the offsets after their "{", ascending
BlockStarts(text, keyword, ignoreCase) ==
    SortedSeq({RunEnd(text, i + Len(keyword), SpaceChars) + 1 : i \in
                  {i \in 0..Len(text) :
                      /\ IF ignoreCase THEN MatchAtIgnoreCase(text, i, keyword)
                         ELSE MatchAt(text, i, keyword)
                      /\ CharAt(text, RunEnd(text, i + Len(keyword), SpaceChars)) = "{"}})

\* the brace-counting loop from startIdx: the content up to the matching "}" as
\* <<content>>, or <<>> when the text ends first (braceCount !== 0)
BlockContent(text, startIdx) ==
    With(MatchingEnd(text, startIdx - 1, "{", "}"), LAMBDA endIdx :
        IF endIdx = -1 THEN None ELSE Some(Substring(text, startIdx, endIdx - 1)))

\* m ? m[1].trim().split(/\s+/).map(Number).slice(0, 3) : undefined
VectorOf(m) == IF m.ok THEN Some(Slice0(NumbersOf(m.cap), 3)) ELSE None

\* the Shape of a Transform: the first Shape block of transformContent, placed at
\* the translation and given the rotation and scale of the Transform
TransformShape(transformContent) ==
    With(VectorOf(KeywordCapture(transformContent, "translation", VectorClass, FALSE)),
         LAMBDA translation :
    With(BlockStarts(transformContent, "Shape", TRUE), LAMBDA shapeStarts :
        IF Len(shapeStarts) = 0 THEN None
        ELSE With(BlockContent(transformContent, shapeStarts[1]), LAMBDA shapeContent :
             IF Len(shapeContent) = 0 THEN None
             ELSE With(ParseShapeNode(shapeContent[1],
                                      IF Len(translation) = 0 THEN Origin
                                      ELSE translation[1]), LAMBDA shape :
                  IF Len(shape) = 0 THEN None
                  ELSE Some([shape[1] EXCEPT
                           !.rotation = VectorOf(KeywordCapture(transformContent,
                                                     "rotation", VectorClass, FALSE)),
                           !.scale = VectorOf(KeywordCapture(transformContent,
                                                  "scale", VectorClass, FALSE))])))))

\* the loop over transformStarts: the shapes pushed, in order
RECURSIVE TransformShapes(_, _)
TransformShapes(cleanedText, transformStarts) ==
    IF Len(transformStarts) = 0 THEN <<>>
    ELSE With(BlockContent(cleanedText, Head(transformStarts)), LAMBDA transformContent :
             (IF Len(transformContent) = 0 THEN <<>>
              ELSE TransformShape(transformContent[1]))
             \o TransformShapes(cleanedText, Tail(transformStarts)))

\* /Group\s*\{([^}]*(?:\{[^}]*\}[^}]*)*)\}/ matched at offset i: the offset of the
\* "}" that ends the match, or -1.  [^}]* runs to the first "}" after the
\* opening brace, and that "}" ends the match.
GroupPatternEnd(text, i) ==
    With(RunEnd(text, i + 5, SpaceChars), LAMBDA open :
        IF MatchAt(text, i, "Group") /\ CharAt(text, open) = "{"
        THEN IndexOfFrom(text, "}", open)
        ELSE -1)

\* the loop over the Group matches, from lastIndex on: the shapes pushed, in order
RECURSIVE GroupShapes(_, _)
GroupShapes(cleanedText, lastIndex) ==
    With({i \in lastIndex..Len(cleanedText) : GroupPatternEnd(cleanedText, i) # -1},
         LAMBDA S :
        IF S = {} THEN <<>>
        ELSE With(GroupPatternEnd(cleanedText, Min(S)), LAMBDA close :
                 ParseShapeNode(
                     Substring(cleanedText,
                               RunEnd(cleanedText, Min(S) + 5, SpaceChars) + 1, close),
                     Origin)
                 \o GroupShapes(cleanedText, close + 1)))

\* the loop over shapeStarts: one shape for every Shape block of the text that has
\* a geometry, at the origin
RECURSIVE StandaloneShapes(_, _)
StandaloneShapes(cleanedText, shapeStarts) ==
    IF Len(shapeStarts) = 0 THEN <<>>
    ELSE With(BlockContent(cleanedText, Head(shapeStarts)), LAMBDA shapeContent :
             (IF Len(shapeContent) = 0 THEN <<>>
              ELSE ParseShapeNode(shapeContent[1], Origin))
             \o StandaloneShapes(cleanedText, Tail(shapeStarts)))

\* the fallback cube
FallbackShape == Shape(Origin, DefaultColor, "box")

\* the shapes the three passes of parseVRML push, in order
PushedShapes(vrmlText) ==
    With(RemoveDEF(vrmlText, 0), LAMBDA cleanedText :
        TransformShapes(cleanedText, BlockStarts(cleanedText, "Transform", FALSE))
        \o GroupShapes(cleanedText, 0)
        \o StandaloneShapes(cleanedText, BlockStarts(cleanedText, "Shape", FALSE)))

\* if (shapes.length === 0) shapes.push(fallback cube)
WithFallbackAlways(shapes) == Append(shapes, FallbackShape)
WithFallback(shapes) == IF Len(shapes) = 0 THEN <<FallbackShape>> ELSE shapes

\* the shapes parseVRML extracts from the expanded text
ExtractShapes(vrmlText) == WithFallback(PushedShapes(vrmlText))

\* protoRegistry after the loop that registers the extracted definitions
RECURSIVE RegisterAll(_, _)
RegisterAll(registry, definitions) ==
    IF Len(definitions) = 0 THEN registry
    ELSE RegisterAll(Register(registry, Head(definitions).name, Head(definitions)),
                     Tail(definitions))

\* parseVRML(vrmlText) run with the registry its constructor call returned: the
\* SceneData it returns, with the registry as it is before and after the final clear()
ParseVRML(vrmlText, protoRegistry) ==
    With(ExtractProtoBlocks(vrmlText), LAMBDA extracted :
    With(RegisterAll(protoRegistry, extracted.protos), LAMBDA registered :
        [shapes |-> ExtractShapes(ExpandAllProtos(extracted.cleanedText, registered,
                                                  DefaultMaxDepth, 0)),
         definitions |-> extracted.protos,
         registered |-> registered,
         cleared |-> Clear(registered)]))

-----------------------------------------------------------------------------
(* SpecParse: parseVRML calls, made one after the other, next to a          *)
(* ProtoRegistry instance that the caller holds and registers templates in. *)

\* bound on the number of parseVRML calls
MaxParses == 3

\* a template Ball, a usage of it, and nothing else
BallSource ==
    "PROTO Ball [ field SFFloat radius 1 ] {\n"
    \o "  Shape { geometry Sphere { radius IS radius } }\n}\nBall { radius 2 }"

\* a usage of Ball with no template of that name, and a Shape of its own
BallUsageSource == "Ball { radius 3 }\nShape { geometry Box { size 4 4 4 } }"

\* another template named Ball, used twice
OtherBallSource ==
    "PROTO Ball [\n  field SFColor tint 0 1 0\n] {\n  Shape {\n"
    \o "    appearance Appearance { material Material { diffuseColor IS tint } }\n"
    \o "    geometry Cone { }\n  }\n}\nBall { }\nBall { tint 0 0 1 }"

\* one Transform with a translation, whose children hold one Shape
TransformSource ==
    "Transform { translation 1 2 3 children [ Shape { geometry Box { size 2 2 2 } "
    \o "appearance Appearance { material Material { diffuseColor 1 0 0 } } } ] }"

ParseSources == {BallSource, BallUsageSource, OtherBallSource, TransformSource}

\* the instance the caller holds, and the template the caller registers in it
CallerRegistry == 1
CallerDefinition ==
    ProtoDefinition("Ball", <<ProtoField("radius", "SFFloat", NumValue(IntNumber(5)))>>,
                    "Shape { geometry Cylinder { radius IS radius } }")

\* new ProtoRegistry(): an instance of its own, with an empty Map
NewRegistryId == Max(DOMAIN protos) + 1
NewProtoRegistry == EmptyMap

\* the register calls and the clear call parseVRML makes on its registry
RegistryCallsOf(definitions) ==
    [k \in 1..Len(definitions) |->
        [op |-> "register", name |-> definitions[k].name, def |-> definitions[k]]]
    \o <<[op |-> "clear", name |-> "", def |-> Undefined]>>

\* The names of the templates expandAllProtos finds usages of and expands, all
\* recursion levels together
RECURSIVE ExpandedNames(_, _, _, _)
ExpandedNames(vrmlText, registry, maxDepth, depth) ==
    With(ExpandLevel(vrmlText, registry, maxDepth, depth), LAMBDA level :
    With(ParseProtoInstances(vrmlText, registry), LAMBDA instances :
        IF DepthCeilingReached(depth, maxDepth) THEN {}
        ELSE {instances[k].protoName : k \in 1..Len(instances)}
             \cup (IF level.recurse
                   THEN ExpandedNames(level.text, registry, maxDepth, depth + 1)
                   ELSE {})))

InitParse ==
    /\ protos = [r \in RegistryIds |-> EmptyMap]
    /\ history = [r \in RegistryIds |-> <<>>]
    /\ ret = NoCall
    /\ pc = "parse"
    /\ resolveIn = NoResolveIn
    /\ resolvedBody = ""
    /\ expandIn = NoExpandIn
    /\ expandedText = ""
    /\ currentDepth = 0
    /\ passes = 0
    /\ parseLog = <<>>
    /\ sceneOut = NoScene
    /\ ExtractIdle

\* what parseVRML(vrmlText) leaves behind when it returns: its registry instance
\* id, registered in and cleared, and the SceneData
ParseReturn(vrmlText, id, run) ==
    /\ protos' = [r \in DOMAIN protos \cup {id} |->
                     IF r = id THEN run.cleared ELSE protos[r]]
    /\ history' = [r \in DOMAIN history \cup {id} |->
                      IF r = id THEN RegistryCallsOf(run.definitions) ELSE history[r]]
    /\ sceneOut' = [shapes |-> run.shapes]
    /\ parseLog' = Append(parseLog,
                          [source |-> vrmlText,
                           registry |-> id,
                           registered |-> run.registered,
                           expanded |-> ExpandedNames(
                                            ExtractProtoBlocks(vrmlText).cleanedText,
                                            run.registered, DefaultMaxDepth, 0),
                           scene |-> [shapes |-> run.shapes]])

\* parseVRML(vrmlText)
ParseCall(vrmlText) ==
    /\ pc = "parse"
    /\ Len(parseLog) < MaxParses
    /\ ParseReturn(vrmlText, NewRegistryId, ParseVRML(vrmlText, NewProtoRegistry))
    /\ UNCHANGED <<ret, resolveIn, resolvedBody, expandIn, expandedText, currentDepth,
                   passes, pc,
                   sourceText, extraction, declText, parsedFields>>

NextParse ==
    \/ \E vrmlText \in ParseSources : ParseCall(vrmlText)
    \/ RegisterCall(CallerRegistry, CallerDefinition.name, CallerDefinition)

SpecParse == InitParse /\ [][NextParse]_vars

\* the template names the sources and the caller use
TemplateNames == {"Ball"}

\* the names a source declares with PROTO
DefinedIn(source) == {n \in TemplateNames : Includes(source, "PROTO " \o n \o " [")}

\* what an instance answers: lookup for every name, and size
Answers(registry) == [lookups |-> [n \in TemplateNames |-> Lookup(registry, n)],
                      size |-> Size(registry)]

\* the Box of the Transform example, at a position
ExampleBox(position) ==
    [Shape(position, "#ff0000", "box") EXCEPT
        !.size = Some(<<IntNumber(2), IntNumber(2), IntNumber(2)>>)]

\* C4: parse isolation.  Two calls on the same source return the same scene,
\* whatever was parsed or registered in between; the registry of a call holds
\* only templates that its own source defines, with the bodies written there, and
\* expands only those; the registry of a call is empty when the call has
\* returned; and a step that makes no call on an instance leaves what that
\* instance answers unchanged.
C4_ParseIsolation ==
    /\ [](\A k \in 1..Len(parseLog) :
             /\ \A j \in 1..Len(parseLog) :
                    parseLog[j].source = parseLog[k].source
                        => parseLog[j].scene = parseLog[k].scene
             /\ GetNames(parseLog[k].registered) = DefinedIn(parseLog[k].source)
             /\ \A n \in GetNames(parseLog[k].registered) :
                    Includes(parseLog[k].source, Lookup(parseLog[k].registered, n).body)
             /\ parseLog[k].expanded \subseteq DefinedIn(parseLog[k].source)
             /\ Size(protos[parseLog[k].registry]) = 0
             /\ \A n \in TemplateNames :
                    Lookup(protos[parseLog[k].registry], n) = Undefined)
    /\ [][\A r \in DOMAIN protos :
             history'[r] = history[r] => Answers(protos'[r]) = Answers(protos[r])]_vars

\* BallUsageSource was parsed before and after BallSource, the caller holding a
\* template Ball meanwhile: both times its scene is its own Box and nothing else
C4_Witness ==
    /\ Len(parseLog) = 3
    /\ parseLog[1].source = BallUsageSource
    /\ parseLog[2].source = BallSource
    /\ parseLog[3].source = BallUsageSource
    /\ Has(protos[CallerRegistry], "Ball")
    /\ Len(parseLog[2].scene.shapes) = 1
    /\ parseLog[2].scene.shapes[1].geometry = "sphere"
    /\ parseLog[2].expanded = {"Ball"}
    /\ parseLog[3].expanded = {}
    /\ Len(parseLog[3].scene.shapes) = 1
    /\ parseLog[3].scene.shapes[1].geometry = "box"
    /\ parseLog[3].scene = parseLog[1].scene

\* C10: the scene returned for the Transform example has exactly one entity: a
\* Box of size [2,2,2] and color #ff0000 at position [1,2,3]
C10_TransformExample ==
    \A k \in 1..Len(parseLog) :
        parseLog[k].source = TransformSource
            => parseLog[k].scene.shapes
                   = <<ExampleBox(<<IntNumber(1), IntNumber(2), IntNumber(3)>>)>>

\* the Transform example was parsed and the scene has two entities: the Box at
\* [1,2,3], and the same Box once more at the origin
C10_Witness ==
    /\ Len(parseLog) > 0
    /\ parseLog[Len(parseLog)].source = TransformSource
    /\ sceneOut.shapes = <<ExampleBox(<<IntNumber(1), IntNumber(2), IntNumber(3)>>),
                           ExampleBox(Origin)>>

-----------------------------------------------------------------------------
(* SpecScene: one parseVRML call, followed through its stages: the PROTO    *)
(* definitions are extracted and registered, the usages expanded one        *)
(* recursion level per step, the shapes pushed, and the scene returned.     *)

\* the first lines of a VRML file
Headers == {"", "#VRML V2.0 utf8\n\n"}

\* the example file simple-proto.wrl: the template ColoredBox and two usages of it;
\* sizeBinding is what the body writes after the keyword size
ColoredBoxSource(sizeBinding) ==
    "PROTO ColoredBox [\n  field SFColor boxColor 1 0 0\n  field SFFloat boxSize 1\n] {\n"
    \o "  Shape {\n    appearance Appearance {\n      material Material {\n"
    \o "        diffuseColor IS boxColor\n      }\n    }\n    geometry Box {\n"
    \o "      size " \o sizeBinding \o "\n    }\n  }\n}\n\n"
    \o "ColoredBox { boxColor 0 1 0 boxSize 2 }\nColoredBox { boxColor 0 0 1 }\n"

\* the size line of simple-proto.wrl, and a size line with one binding
ExampleSizeBinding == "IS boxSize IS boxSize IS boxSize"
SingleSizeBinding == "IS boxSize"

\* a definition whose field list is never closed, and a usage of its name
UnclosedFieldsSource ==
    "PROTO Broken [ field SFFloat r 1 {\n  Shape { geometry Sphere { radius IS r } }\n}\n"
    \o "Broken { r 2 }\n"

\* a definition whose body is never closed, and a usage of its name
UnclosedBodySource ==
    "PROTO Open [ field SFFloat h 3 ] {\n  Shape { geometry Cone { height IS h }\n"
    \o "Open { h 2 }\n"

\* a definition whose declarations give two numbers for a vector and a word for a
\* float, and a usage of it
ShortDefaultsSource ==
    "PROTO Dot [\n  field SFVec3f at 1 2\n  field SFFloat r abc\n] {\n"
    \o "  Transform { translation IS at children [ "
    \o "Shape { geometry Sphere { radius IS r } } ] }\n}\nDot { }\n"

\* a definition whose body binds a field it does not declare, and a usage of it
UnboundFieldSource ==
    "PROTO Loose [ field SFFloat r 1 ] {\n"
    \o "  Shape { geometry Sphere { radius IS nothing } }\n}\nLoose { }\n"

\* a definition whose body uses the definition itself, and a usage of it
SelfUseSource ==
    "PROTO Loop [ ] {\n  Group { children [ Loop { } ] }\n}\nLoop { }\n"

TemplateParts ==
    {"", ColoredBoxSource(ExampleSizeBinding), ColoredBoxSource(SingleSizeBinding),
     UnclosedFieldsSource, UnclosedBodySource, ShortDefaultsSource, UnboundFieldSource,
     SelfUseSource}

\* the nodes written after the templates: none, a Box, a Shape with no geometry, a
\* node type the parser does not know, a usage of a name no template has
BoxNode == "Shape { geometry Box { size 2 2 2 } }\n"
BareShapeNode ==
    "Shape { appearance Appearance { material Material { diffuseColor 0 0 1 } } }\n"
UnknownNode == "WorldInfo { title x }\n"
GhostUsage == "Ghost { size 1 }\n"

NodeParts == {"", BoxNode, BareShapeNode, UnknownNode, GhostUsage}

SceneSources == {h \o t \o n : h \in Headers, t \in TemplateParts, n \in NodeParts}

InitScene ==
    /\ sourceText \in SceneSources
    /\ extraction = NoExtraction
    /\ declText = ""
    /\ parsedFields = <<>>
    /\ pc = "parseVRML"
    /\ protos = [r \in RegistryIds |-> EmptyMap]
    /\ history = [r \in RegistryIds |-> <<>>]
    /\ ret = NoCall
    /\ resolveIn = NoResolveIn
    /\ resolvedBody = ""
    /\ expandIn = NoExpandIn
    /\ expandedText = ""
    /\ currentDepth = 0
    /\ passes = 0
    /\ parseLog = <<>>
    /\ sceneOut = NoScene

\* the registry of the call, once the extracted definitions are registered in it,
\* handed to expandAllProtos with the text the definitions were cut out of
PreprocessReturn(extracted, id, registered) ==
    /\ extraction' = extracted
    /\ protos' = [r \in DOMAIN protos \cup {id} |-> IF r = id THEN registered ELSE protos[r]]
    /\ history' = [r \in DOMAIN history \cup {id} |->
                      IF r = id
                      THEN [k \in 1..Len(extracted.protos) |->
                               [op |-> "register", name |-> extracted.protos[k].name,
                                def |-> extracted.protos[k]]]
                      ELSE history[r]]
    /\ expandIn' = [vrmlText |-> extracted.cleanedText, registry |-> registered,
                    maxDepth |-> DefaultMaxDepth, kind |-> "parse",
                    names |-> GetNames(registered)]
    /\ expandedText' = extracted.cleanedText

\* parseVRML, step 1: new ProtoRegistry(), extractProtoBlocks, the register loop
PreprocessStep ==
    /\ pc = "parseVRML"
    /\ With(ExtractProtoBlocks(sourceText), LAMBDA extracted :
           PreprocessReturn(extracted, NewRegistryId,
                            RegisterAll(NewProtoRegistry, extracted.protos)))
    /\ currentDepth' = 0
    /\ passes' = 0
    /\ pc' = "expand"
    /\ UNCHANGED <<ret, resolveIn, resolvedBody, parseLog, sceneOut, sourceText,
                   declText, parsedFields>>

\* parseVRML, the DEF removal and the three passes over the expanded text
ShapesStep ==
    /\ pc = "expanded"
    /\ sceneOut' = [shapes |-> PushedShapes(expandedText)]
    /\ pc' = "shapes"
    /\ UNCHANGED <<protos, history, ret, resolveIn, resolvedBody, expandIn, expandedText,
                   currentDepth, passes, parseLog, sourceText, extraction, declText,
                   parsedFields>>

\* the registry instance of the call
SceneRegistry == Max(DOMAIN protos)

\* parseVRML, the end: the fallback, protoRegistry.clear(), return { shapes }
ReturnStep ==
    /\ pc = "shapes"
    /\ sceneOut' = [shapes |-> WithFallback(sceneOut.shapes)]
    /\ protos' = [protos EXCEPT ![SceneRegistry] = Clear(@)]
    /\ history' = [history EXCEPT
                      ![SceneRegistry] =
                          Append(@, [op |-> "clear", name |-> "", def |-> Undefined])]
    /\ pc' = "returned"
    /\ UNCHANGED <<ret, resolveIn, resolvedBody, expandIn, expandedText, currentDepth,
                   passes, parseLog, sourceText, extraction, declText, parsedFields>>

NextScene ==
    \/ PreprocessStep
    \/ ExpandStep
    \/ ShapesStep
    \/ ReturnStep

SpecScene == InitScene /\ [][NextScene]_vars

\* the call has returned its SceneData
Returned == pc = "returned"

\* the default entity: a Box at the origin in the teal colour
DefaultEntity ==
    Shape(<<IntNumber(0), IntNumber(0), IntNumber(0)>>, "#4CC3D9", "box")

\* sources in which nothing can be extracted: no node at all, a node type the
\* parser does not know, a Shape with no geometry, a usage of an unknown name
NoEntitySources == {h \o n : h \in Headers, n \in NodeParts \ {BoxNode}}

\* C11: the shapes list of a returned scene is never empty; at the end of the
\* call the list is the one default entity (position [0,0,0], color #4CC3D9, Box)
\* when the passes pushed nothing and is left as pushed otherwise; and a source
\* with no recognizable node, or whose only block has no geometry, returns
\* exactly the default entity.
C11_NeverEmpty ==
    /\ [](Returned =>
             /\ Len(sceneOut.shapes) >= 1
             /\ (sourceText \in NoEntitySources => sceneOut.shapes = <<DefaultEntity>>))
    /\ [][(pc = "shapes" /\ pc' = "returned") =>
             sceneOut'.shapes = IF Len(sceneOut.shapes) = 0 THEN <<DefaultEntity>>
                                ELSE sceneOut.shapes]_vars

\* the call on a file with a header and a node of unknown type has returned the
\* default entity and nothing else
C11_Witness ==
    /\ Returned
    /\ sourceText = "#VRML V2.0 utf8\n\n" \o UnknownNode
    /\ sceneOut.shapes = <<DefaultEntity>>

\* a Shape block as the body of ColoredBox writes it, with its two values in place
ColoredBoxShape(color, size) ==
    "Shape {\n    appearance Appearance {\n      material Material {\n"
    \o "        diffuseColor " \o color \o "\n      }\n    }\n    geometry Box {\n"
    \o "      size " \o size \o "\n    }\n  }"

\* the text left of a ColoredBox source when its two usages are expanded
ColoredBoxExpanded(header, firstSize, secondSize) ==
    header \o "\n\n" \o ColoredBoxShape("0 1 0", firstSize) \o "\n"
    \o ColoredBoxShape("0 0 1", secondSize) \o "\n"

\* C12: when the preprocessing of the ColoredBox example has ended, the text is
\* exactly two Shape blocks in usage order, the first with diffuseColor 0 1 0 and
\* size 2, the second with diffuseColor 0 0 1 and the default size 1 (the size
\* written once, or once per binding of the body), with no PROTO block, no
\* ColoredBox usage and nothing else left.
C12_ColoredBoxExample ==
    \A h \in Headers, b \in {ExampleSizeBinding, SingleSizeBinding} :
        (pc = "expanded" /\ sourceText = h \o ColoredBoxSource(b)) =>
            \E s \in {<<"2", "1">>, <<"2 2 2", "1 1 1">>} :
                expandedText = ColoredBoxExpanded(h, s[1], s[2])

\* the preprocessing of simple-proto.wrl has ended: two Shape blocks in usage
\* order with the colours and sizes in place, and a binding left in each Box
C12_Witness ==
    /\ pc = "expanded"
    /\ sourceText = "#VRML V2.0 utf8\n\n" \o ColoredBoxSource(ExampleSizeBinding)
    /\ passes = 1
    /\ expandedText = ColoredBoxExpanded("#VRML V2.0 utf8\n\n", "2 IS boxSize 2",
                                         "1 IS boxSize 1")

\* the values of Shape.geometry
Geometries == {"box", "sphere", "cylinder", "cone", "mesh", "lines"}

\* the stages of a parseVRML call
SceneStages == {"parseVRML", "expand", "expanded", "shapes", "returned"}

\* a value parseVRML may return: a list of at least one entity, each with one of
\* the geometries, a colour and a position
IsSceneData(scene) ==
    /\ DOMAIN scene = {"shapes"}
    /\ Len(scene.shapes) >= 1
    /\ \A k \in 1..Len(scene.shapes) :
          /\ scene.shapes[k].geometry \in Geometries
          /\ Len(scene.shapes[k].color) = 7
          /\ Len(scene.shapes[k].position) \in 1..3

-----------------------------------------------------------------------------
(* SpecExtract: one extractProtoBlocks call on a text put together from     *)
(* well-formed and malformed PROTO blocks and other nodes.                  *)

\* bound on the number of blocks a text is put together from
MaxBlocks == 3

\* two well-formed definitions
AlphaBlock == "PROTO Alpha [ field SFFloat r 1 ] { Sphere { radius IS r } }"
BetaBlock ==
    "PROTO Beta [\n  field SFColor c 1 0 0\n] {\n  Shape { geometry Box { } }\n}"
\* a definition whose field list is not closed
GapBlock == "PROTO Gap [ field SFFloat x 1 { Box { } }"
\* a definition with a field list and no body
BareBlock == "PROTO Bare [ field SFFloat y 2 ]"
\* a definition whose body is not closed
TornBlock == "PROTO Torn [ ] { Shape { geometry Box { } }"
\* a definition written inside the body of another definition
NestedBlock == "PROTO Outer [ ] { PROTO Inner [ ] { Box { } } Inner { } }"
\* a node that is no definition
PlainNode == "Shape { geometry Cone { } }"

Blocks == {AlphaBlock, BetaBlock, GapBlock, BareBlock, TornBlock, NestedBlock, PlainNode}

\* the blocks of a text, in order; the text writes them one per line
BlockSeqs == UNION {[1..n -> Blocks] : n \in 1..MaxBlocks}
TextOf(blocks) == Join(blocks, "\n")

ExtractSources == {TextOf(blocks) : blocks \in BlockSeqs}

InitExtract ==
    /\ sourceText \in ExtractSources
    /\ extraction = NoExtraction
    /\ declText = ""
    /\ parsedFields = <<>>
    /\ pc = "extract"
    /\ protos = [r \in RegistryIds |-> EmptyMap]
    /\ history = [r \in RegistryIds |-> <<>>]
    /\ ret = NoCall
    /\ resolveIn = NoResolveIn
    /\ resolvedBody = ""
    /\ expandIn = NoExpandIn
    /\ expandedText = ""
    /\ currentDepth = 0
    /\ passes = 0
    /\ parseLog = <<>>
    /\ sceneOut = NoScene

\* extractProtoBlocks(sourceText)
ExtractCall ==
    /\ pc = "extract"
    /\ extraction' = ExtractProtoBlocks(sourceText)
    /\ pc' = "extracted"
    /\ UNCHANGED <<protos, history, ret, resolveIn, resolvedBody, expandIn, expandedText,
                   currentDepth, passes, parseLog, sceneOut, sourceText, declText,
                   parsedFields>>

NextExtract == ExtractCall

SpecExtract == InitExtract /\ [][NextExtract]_vars

\* the definitions the well-formed blocks declare, as they are written
AlphaDefinition ==
    ProtoDefinition("Alpha", <<ProtoField("r", "SFFloat", NumValue(IntNumber(1)))>>,
                    "Sphere { radius IS r }")
BetaDefinition ==
    ProtoDefinition("Beta", <<ProtoField("c", "SFColor", IntArray(<<1, 0, 0>>))>>,
                    "Shape { geometry Box { } }")
OuterDefinition ==
    ProtoDefinition("Outer", <<>>, "PROTO Inner [ ] { Box { } } Inner { }")
InnerDefinition == ProtoDefinition("Inner", <<>>, "Box { }")

WrittenIn(block) ==
    IF block = AlphaBlock THEN <<AlphaDefinition>>
    ELSE IF block = BetaBlock THEN <<BetaDefinition>>
    ELSE IF block = NestedBlock THEN <<OuterDefinition, InnerDefinition>>
    ELSE <<>>

RECURSIVE WrittenInAll(_)
WrittenInAll(blocks) ==
    IF Len(blocks) = 0 THEN <<>>
    ELSE WrittenIn(Head(blocks)) \o WrittenInAll(Tail(blocks))

\* the names of the returned definitions
ExtractedNames == {extraction.protos[k].name : k \in 1..Len(extraction.protos)}

\* the blocks with no body that find an opening brace after them which is
\* matched: the first block after them that is not of their kind is not TornBlock
BodyTakers(blocks) ==
    {k \in 1..Len(blocks) :
        /\ blocks[k] = BareBlock
        /\ \E j \in (k + 1)..Len(blocks) :
              /\ blocks[j] \notin {BareBlock, TornBlock}
              /\ \A i \in (k + 1)..(j - 1) : blocks[i] = BareBlock}

\* C14: in the list extractProtoBlocks returns, the definitions of the
\* well-formed blocks of the text are all there, each with the name, fields and
\* body its block writes, in the order of the text, whatever malformed blocks
\* stand before, between or after them; a block with unmatched field brackets or
\* unmatched body braces is never returned; and a block with no body is returned
\* only when a matched opening brace follows it in the text, never when the text
\* ends without one.
C14_MalformedBlockLocal ==
    pc = "extracted" =>
        \A blocks \in BlockSeqs :
            sourceText = TextOf(blocks) =>
                /\ SelectSeq(extraction.protos, LAMBDA d : d.name # "Bare")
                       = WrittenInAll(blocks)
                /\ "Gap" \notin ExtractedNames
                /\ "Torn" \notin ExtractedNames
                /\ Len(SelectSeq(extraction.protos, LAMBDA d : d.name = "Bare"))
                       = Cardinality(BodyTakers(blocks))

\* a well-formed block between a block with unmatched brackets and one with
\* unmatched braces: it alone is returned
C14_Witness ==
    /\ pc = "extracted"
    /\ sourceText = TextOf(<<GapBlock, BetaBlock, TornBlock>>)
    /\ extraction.protos = <<BetaDefinition>>

\* the offsets of text that lie in no span [start, end) of blocks
Outside(text, blocks) ==
    {i \in 0..(Len(text) - 1) :
        \A k \in 1..Len(blocks) : i < blocks[k].start \/ i >= blocks[k].end}

\* the characters of text at the offsets of the set kept, in their order: the
\* runs of consecutive offsets, one after the other
RECURSIVE KeptFrom(_, _, _)
KeptFrom(text, kept, from) ==
    With({i \in kept : i >= from}, LAMBDA rest :
        IF rest = {} THEN ""
        ELSE With(Min(rest), LAMBDA lo :
             With(Min({j \in lo..Len(text) : j + 1 \notin kept}), LAMBDA hi :
                 Substring(text, lo, hi + 1) \o KeptFrom(text, kept, hi + 1))))

\* the text with the spans of blocks deleted
Residual(text, blocks) == KeptFrom(text, Outside(text, blocks), 0)

\* C15: the cleanedText extractProtoBlocks returns is the source text with the
\* span of every extracted block deleted and every other character kept in its
\* order, for every arrangement of the extracted blocks: one after the other, one
\* inside the body of another, or one with no body that takes the braces of the
\* next.
C15_ResidualText ==
    pc = "extracted" =>
        extraction.cleanedText = Residual(sourceText, ProtoBlocks(sourceText))

\* a definition written inside another, followed by a Shape: the definitions are
\* both returned and all that is left of the text is the last brace of the Shape
C15_Witness ==
    /\ pc = "extracted"
    /\ sourceText = TextOf(<<NestedBlock, PlainNode>>)
    /\ extraction.protos = <<OuterDefinition, InnerDefinition>>
    /\ Residual(sourceText, ProtoBlocks(sourceText)) = "\n" \o PlainNode
    /\ extraction.cleanedText = "}"

\* the text with every located usage that lies in no other one replaced by its
\* expansion, and the characters outside the usages kept: instances in text
\* order, from the offset from on
RECURSIVE SpansReplaced(_, _, _, _)
SpansReplaced(text, instances, registry, from) ==
    IF Len(instances) = 0 THEN SubstringFrom(text, from)
    ELSE IF Head(instances).startIndex < from
         THEN SpansReplaced(text, Tail(instances), registry, from)
         ELSE Substring(text, from, Head(instances).startIndex)
              \o ExpandProto(Head(instances), registry)
              \o SpansReplaced(text, Tail(instances), registry, Head(instances).endIndex)

\* C16: a pass of expandAllProtos leaves the text in which every located usage
\* is replaced by its expanded body and every character outside the located
\* usages is kept, in order; this for usages side by side, in a node that is no
\* usage, and in the braces of another usage.
C16_PassKeepsSpans ==
    [][(pc = "expand" /\ passes' = passes + 1) =>
          expandedText' = SpansReplaced(expandedText,
                                        ParseProtoInstances(expandedText, expandIn.registry),
                                        expandIn.registry, 0)]_vars

\* a pass on a usage of Part written in the braces of a usage of Wrap: the
\* expansion of Wrap is in place, followed by the end of what the usage of Wrap
\* had become when Part was replaced in it
C16_Witness ==
    /\ expandIn.kind = "framed"
    /\ expandIn.vrmlText = FramedBefore \o UsageInUsage \o FramedAfter
    /\ passes = 1
    /\ expandedText = FramedBefore \o WrapBody \o " { size 2.5 }\n} ] }" \o FramedAfter

-----------------------------------------------------------------------------
\* the usage of the k-th template of a chain after n passes: each pass opens the
\* one usage the text holds, the body of the first template holds none
RECURSIVE ChainExpansion(_, _)
ChainExpansion(k, n) ==
    IF n = 0 THEN LinkName(k) \o " { }"
    ELSE IF k = 1 THEN "Shape { geometry Sphere { } }"
    ELSE "Group { children [ " \o ChainExpansion(k - 1, n - 1) \o " ] }"

\* the number of templates of the chain the call was made on
ChainLength == Cardinality(expandIn.names)

\* C17: expandAllProtos never performs more than maxDepth passes, and with a
\* ceiling of 0 it returns its input as it is; when it has returned for the usage
\* of the last template of a non-circular chain of k templates, it has performed
\* min(k, maxDepth) passes and returns the text these passes give: for
\* k <= maxDepth the full expansion, which holds no usage and no template name,
\* and for k > maxDepth a text that still holds a usage of a template
C17_DepthCeiling ==
    /\ passes <= expandIn.maxDepth
    /\ currentDepth <= expandIn.maxDepth
    /\ (Expanded /\ expandIn.maxDepth = 0) => expandedText = expandIn.vrmlText
    /\ (Expanded /\ expandIn.kind = "chain") =>
          /\ passes = Min({ChainLength, expandIn.maxDepth})
          /\ expandedText = ChainExpansion(ChainLength, passes)
          /\ (ChainLength <= expandIn.maxDepth) <=>
                ~HasProtoInstances(expandedText, expandIn.registry)
          /\ (ChainLength <= expandIn.maxDepth) <=>
                (\A name \in expandIn.names : ~Includes(expandedText, name))
          /\ ChainLength > expandIn.maxDepth =>
                Len(ParseProtoInstances(expandedText, expandIn.registry)) = 1

\* a chain of four templates under a ceiling of three: three passes, and the
\* usage of the first template is left in the returned text
C17_Witness ==
    /\ Expanded
    /\ expandIn.kind = "chain"
    /\ ChainLength = 4
    /\ expandIn.maxDepth = 3
    /\ passes = 3
    /\ expandedText = "Group { children [ Group { children [ Group { children [ "
                      \o "Link1 { } ] } ] } ] }"

-----------------------------------------------------------------------------
\* C18: when expandAllProtos has returned at a depth below the ceiling, the text
\* it returns holds no brace-matched usage of a registered template; and a level
\* below the ceiling returns only when its pass finds no usage in its text, or
\* when the re-scan of the text its pass has built finds none
C18_FixedPoint ==
    /\ [](Expanded /\ currentDepth < expandIn.maxDepth =>
             Len(ParseProtoInstances(expandedText, expandIn.registry)) = 0)
    /\ [][(pc = "expand" /\ pc' = "expanded" /\ currentDepth < expandIn.maxDepth) =>
             \/ /\ Len(ParseProtoInstances(expandedText, expandIn.registry)) = 0
                /\ passes' = passes
                /\ expandedText' = expandedText
             \/ /\ passes' = passes + 1
                /\ ~HasProtoInstances(expandedText', expandIn.registry)]_vars

\* a text with a usage and a template name whose brace is never closed: the
\* re-scan after the first pass finds the name, the pass of the next level finds
\* no usage, and the call returns below the ceiling with the name in the text
C18_Witness ==
    /\ Expanded
    /\ expandIn.kind = "framed"
    /\ currentDepth = 1
    /\ currentDepth < expandIn.maxDepth
    /\ passes = 1
    /\ HasProtoInstances(expandedText, expandIn.registry)
    /\ expandedText = FramedBefore \o WrapBody \o "\nPart { size 2" \o FramedAfter

-----------------------------------------------------------------------------
\* the text before the first, and after the last, of the usages located in it
BeforeUsages(text, instances) ==
    Substring(text, 0, Min({instances[k].startIndex : k \in 1..Len(instances)}))
AfterUsages(text, instances) ==
    SubstringFrom(text, Max({instances[k].endIndex : k \in 1..Len(instances)}))

\* text begins with before and ends with after, the two not overlapping
Surrounds(text, before, after) ==
    /\ Len(before) + Len(after) <= Len(text)
    /\ MatchAt(text, 0, before)
    /\ MatchAt(text, Len(text) - Len(after), after)

\* C19: an identifier followed by a brace is located as a usage only when it is
\* registered; a call on a text in which no registered identifier is followed by
\* a brace, the empty registry included, performs no pass and returns the text as
\* it is; and a pass leaves the text before the first and after the last located
\* usage, where the nodes with unregistered identifiers stand, as it was
C19_RegistryFilter ==
    /\ [](\A k \in 1..Len(ParseProtoInstances(expandedText, expandIn.registry)) :
             Has(expandIn.registry,
                 ParseProtoInstances(expandedText, expandIn.registry)[k].protoName))
    /\ [](expandIn.kind = "unregistered" =>
             /\ passes = 0
             /\ expandedText = expandIn.vrmlText)
    /\ [][(pc = "expand" /\ passes' = passes + 1) =>
             Surrounds(expandedText',
                 BeforeUsages(expandedText,
                     ParseProtoInstances(expandedText, expandIn.registry)),
                 AfterUsages(expandedText,
                     ParseProtoInstances(expandedText, expandIn.registry)))]_vars

\* a pass on a usage of Part, with a body shorter than the usage, written in the
\* braces of a usage of Wrap: the identifier of the Transform node that follows
\* the usages is gone from the text
C19_Witness ==
    /\ expandIn.kind = "framed"
    /\ expandIn.vrmlText = FramedBefore \o UsageInUsage \o FramedAfter
    /\ Lookup(expandIn.registry, "Part").body = "Box { }"
    /\ passes = 1
    /\ expandedText = FramedBefore \o WrapBody \o "{ translation 1 2 3 }"
    /\ ~Includes(expandedText, "Transform")

-----------------------------------------------------------------------------
(* SpecFields: parseProtoFields applied to one declaration list.            *)

\* the longest declaration list
MaxDecls == 2

\* the value tokens of a declaration, and the numbers the numeric ones denote
NumericTokens == {"1", "2", "3", "0.5"}
TokenNumber(token) ==
    CASE token = "1" -> IntNumber(1)
      [] token = "2" -> IntNumber(2)
      [] token = "3" -> IntNumber(3)
      [] OTHER -> MkNumber(5, 1)

\* the values a declaration is written with: from one to four numbers, and a
\* word in the place of a number
TokenLists == {<<"0.5">>, <<"1", "2">>, <<"1", "2", "3">>, <<"1", "2", "3", "0.5">>,
               <<"abc">>, <<"1", "abc", "3">>}

\* the types whose default is one number or a list of numbers
NumberTypes == {"SFFloat", "SFVec3f", "SFColor", "SFRotation"}

Declaration(type, tokens) == [type |-> type, tokens |-> tokens]

\* the declarations lists are filled up with: both supply the numbers of their type
FillDeclarations == {Declaration("SFFloat", <<"0.5">>),
                     Declaration("SFRotation", <<"1", "2", "3", "0.5">>)}

\* what stands between two declarations: a line break, or one space
DeclSeparators == {"\n  ", " "}

\* the lists of n declarations: any type with any value at one place, filled up
\* at the other places
DeclListsOf(n) ==
    UNION {{[k \in 1..n |-> IF k = at THEN Declaration(type, tokens) ELSE fill[k]] :
               type \in NumberTypes, tokens \in TokenLists,
               fill \in [1..n -> FillDeclarations]} : at \in 1..n}
DeclLists == UNION {DeclListsOf(n) : n \in 1..MaxDecls}

\* the k-th declaration of a list as it is written: its field is named f<k>
DeclString(decl, k) ==
    "field " \o decl.type \o " f" \o IntToDigits(k) \o " " \o Join(decl.tokens, " ")
DeclListText(decls, sep) ==
    Join([k \in 1..Len(decls) |-> DeclString(decls[k], k)], sep)

FieldTexts == {DeclListText(decls, sep) : decls \in DeclLists, sep \in DeclSeparators}

InitFields ==
    /\ declText \in FieldTexts
    /\ parsedFields = <<>>
    /\ sourceText = ""
    /\ extraction = NoExtraction
    /\ pc = "fields"
    /\ protos = [r \in RegistryIds |-> EmptyMap]
    /\ history = [r \in RegistryIds |-> <<>>]
    /\ ret = NoCall
    /\ resolveIn = NoResolveIn
    /\ resolvedBody = ""
    /\ expandIn = NoExpandIn
    /\ expandedText = ""
    /\ currentDepth = 0
    /\ passes = 0
    /\ parseLog = <<>>
    /\ sceneOut = NoScene

\* parseProtoFields(declText)
FieldsCall ==
    /\ pc = "fields"
    /\ parsedFields' = ParseProtoFields(declText)
    /\ pc' = "parsedFields"
    /\ UNCHANGED <<protos, history, ret, resolveIn, resolvedBody, expandIn, expandedText,
                   currentDepth, passes, parseLog, sceneOut, sourceText, extraction,
                   declText>>

NextFields == FieldsCall

SpecFields == InitFields /\ [][NextFields]_vars

\* the number of numbers in a default of the type
Arity(type) ==
    CASE type = "SFFloat" -> 1
      [] type = "SFRotation" -> 4
      [] OTHER -> 3

\* the zero default of the type
ZeroDefault(type) ==
    CASE type = "SFFloat" -> NumValue(IntNumber(0))
      [] type = "SFRotation" -> IntArray(<<0, 0, 1, 0>>)
      [] OTHER -> IntArray(<<0, 0, 0>>)

\* the default has the shape of the type: one number, or a list of as many
\* numbers as the type has, none of them NaN
ShapeMatches(type, defaultValue) ==
    /\ defaultValue.kind = (IF type = "SFFloat" THEN "number" ELSE "array")
    /\ Len(defaultValue.items) = Arity(type)
    /\ \A k \in 1..Len(defaultValue.items) : ~defaultValue.items[k].nan

\* the declaration supplies the numbers of its type: its first tokens, as many as
\* the type has numbers, are all numeric (what follows them is not looked at)
SuppliesNumbers(decl) ==
    /\ Len(decl.tokens) >= Arity(decl.type)
    /\ \A k \in 1..Arity(decl.type) : decl.tokens[k] \in NumericTokens

\* the field a declaration is to give: the numbers it supplies, or the zero
\* default of its type
DeclaredField(decl, k) ==
    ProtoField("f" \o IntToDigits(k), decl.type,
        IF ~SuppliesNumbers(decl) THEN ZeroDefault(decl.type)
        ELSE IF decl.type = "SFFloat" THEN NumValue(TokenNumber(decl.tokens[1]))
        ELSE ArrayValue([j \in 1..Arity(decl.type) |-> TokenNumber(decl.tokens[j])]))

\* each declaration text with the fields its declarations are to give
DeclaredFields ==
    {<<DeclListText(decls, sep), [k \in 1..Len(decls) |-> DeclaredField(decls[k], k)]>> :
        decls \in DeclLists, sep \in DeclSeparators}

FieldsParsed == pc = "parsedFields"

\* C20: when parseProtoFields has returned, every field it has produced has a
\* default of the shape of its type (SFFloat one number, SFVec3f and SFColor
\* three numbers, SFRotation four), and the fields are those of the declarations
\* in their order: with the numbers a declaration supplies, and with the zero
\* default of the type for a declaration with too few numbers or with a word in
\* the place of a number, the other fields of the list being parsed all the same
C20_FieldArity ==
    FieldsParsed =>
        /\ \A k \in 1..Len(parsedFields) :
              ShapeMatches(parsedFields[k].type, parsedFields[k].defaultValue)
        /\ <<declText, parsedFields>> \in DeclaredFields

\* a list of an SFVec3f declared with two numbers and a well-formed SFFloat: the
\* first field has a default of two numbers, the second is parsed
C20_Witness ==
    /\ FieldsParsed
    /\ declText = "field SFVec3f f1 1 2\n  field SFFloat f2 0.5"
    /\ parsedFields = <<ProtoField("f1", "SFVec3f", IntArray(<<1, 2>>)),
                        ProtoField("f2", "SFFloat", NumValue(MkNumber(5, 1)))>>

-----------------------------------------------------------------------------
(* SpecFieldTypes: parseProtoFields applied to a declaration list with a    *)
(* clause whose type tag is none of the six of fieldPattern.                *)

\* type tags outside the alternation of fieldPattern
OtherTypes == {"SFBool", "SFString", "SFInt32", "MFFloat"}

\* the values such a clause is written with
OtherValues == {<<"TRUE">>, <<"5">>, <<"1", "2", "3">>}

\* the lists of n declarations with one clause of another type, filled up at the
\* other places
OtherListsOf(n) ==
    UNION {{[k \in 1..n |-> IF k = at THEN Declaration(type, tokens) ELSE fill[k]] :
               type \in OtherTypes, tokens \in OtherValues,
               fill \in [1..n -> FillDeclarations]} : at \in 1..n}
OtherLists == UNION {OtherListsOf(n) : n \in 1..MaxDecls}

OtherTexts == {DeclListText(decls, sep) : decls \in OtherLists, sep \in DeclSeparators}

InitFieldTypes ==
    /\ declText \in OtherTexts
    /\ parsedFields = <<>>
    /\ sourceText = ""
    /\ extraction = NoExtraction
    /\ pc = "fields"
    /\ protos = [r \in RegistryIds |-> EmptyMap]
    /\ history = [r \in RegistryIds |-> <<>>]
    /\ ret = NoCall
    /\ resolveIn = NoResolveIn
    /\ resolvedBody = ""
    /\ expandIn = NoExpandIn
    /\ expandedText = ""
    /\ currentDepth = 0
    /\ passes = 0
    /\ parseLog = <<>>
    /\ sceneOut = NoScene

SpecFieldTypes == InitFieldTypes /\ [][NextFields]_vars

\* the field a clause is to give: the raw value text for a type tag outside the
\* six, the field of its declaration otherwise
AcceptedField(decl, k) ==
    IF decl.type \in OtherTypes
    THEN ProtoField("f" \o IntToDigits(k), decl.type, StrValue(Join(decl.tokens, " ")))
    ELSE DeclaredField(decl, k)

\* each text with the fields its clauses are to give
AcceptedFields ==
    {<<DeclListText(decls, sep), [k \in 1..Len(decls) |-> AcceptedField(decls[k], k)]>> :
        decls \in OtherLists, sep \in DeclSeparators}

\* the recognized clauses of each text alone, in their order
RecognizedFields ==
    {<<DeclListText(decls, sep),
       SelectSeq([k \in 1..Len(decls) |-> AcceptedField(decls[k], k)],
                 LAMBDA field : field.type \in FieldTypes)>> :
        decls \in OtherLists, sep \in DeclSeparators}

\* C21: when parseProtoFields has returned for a list with a clause whose type
\* tag is none of the six, the list it returns holds a field of that name with
\* the raw trimmed value text as its value, between the fields of the recognized
\* clauses, which are parsed as usual
C21_UnknownTypeAccepted ==
    FieldsParsed => <<declText, parsedFields>> \in AcceptedFields

\* a clause of type SFBool before a recognized SFFloat clause: the list returned
\* holds the SFFloat field alone
C21_Witness ==
    /\ FieldsParsed
    /\ declText = "field SFBool f1 TRUE\n  field SFFloat f2 0.5"
    /\ parsedFields = <<ProtoField("f2", "SFFloat", NumValue(MkNumber(5, 1)))>>

-----------------------------------------------------------------------------
(* SpecNodes: parseVRML applied to a text of Transform, Group and Shape     *)
(* blocks, no PROTO in it.                                                  *)

\* the most blocks of a text
MaxNodes == 3

\* the geometry written in the k-th block of a text, and its kind
NodeGeometries == <<"Sphere", "Box", "Cone", "Cylinder">>
NodeKinds == <<"sphere", "box", "cone", "cylinder">>

\* the blocks a text is made of: a Transform with a translation and one Shape in
\* its children, a Group with one Shape in its children, a Shape
NodeTypes == {"Transform", "Group", "Shape"}

ShapeString(k) == "Shape { geometry " \o NodeGeometries[k] \o " { } }"
NodeString(type, k) ==
    CASE type = "Transform" ->
            "Transform {\n  translation " \o IntToDigits(k) \o " 0 0\n  children [ "
            \o ShapeString(k) \o " ]\n}"
      [] type = "Group" -> "Group { children [ " \o ShapeString(k) \o " ] }"
      [] OTHER -> ShapeString(k)

\* the texts of n blocks, one to a line
NodeLists ==
    UNION {[1..n -> NodeTypes] : n \in 1..Min({MaxNodes, Len(NodeGeometries)})}
NodesText(nodes) == Join([k \in 1..Len(nodes) |-> NodeString(nodes[k], k)], "\n")
NodeTexts == {NodesText(nodes) : nodes \in NodeLists}

InitNodes ==
    /\ sourceText \in NodeTexts
    /\ extraction = NoExtraction
    /\ declText = ""
    /\ parsedFields = <<>>
    /\ pc = "parseVRML"
    /\ protos = [r \in RegistryIds |-> EmptyMap]
    /\ history = [r \in RegistryIds |-> <<>>]
    /\ ret = NoCall
    /\ resolveIn = NoResolveIn
    /\ resolvedBody = ""
    /\ expandIn = NoExpandIn
    /\ expandedText = ""
    /\ currentDepth = 0
    /\ passes = 0
    /\ parseLog = <<>>
    /\ sceneOut = NoScene

SpecNodes == InitNodes /\ [][NextScene]_vars

\* the blocks the text of the call is made of
NodesOf(text) == CHOOSE nodes \in NodeLists : NodesText(nodes) = text

\* the place in the text of the block an entity is of: the k-th block holds the
\* k-th geometry
BlockOf(entity) == CHOOSE k \in 1..Len(NodeKinds) : NodeKinds[k] = entity.geometry

\* the position a Transform gives the Shape of the k-th block
PlaceOf(k) == <<IntNumber(k), IntNumber(0), IntNumber(0)>>

\* C22: when parseVRML has returned for a text of Transform, Group and Shape
\* blocks, the entities stand in the order of their blocks in the text: no
\* entity of a block comes after an entity of a block that starts later
C22_EntityOrder ==
    Returned =>
        \A a, b \in 1..Len(sceneOut.shapes) :
            a < b => BlockOf(sceneOut.shapes[a]) <= BlockOf(sceneOut.shapes[b])

\* a Shape followed by a Transform: the entity of the Transform is the first of
\* the list, the entity of the Shape, whose block starts the text, the second
C22_Witness ==
    /\ Returned
    /\ NodesOf(sourceText) = <<"Shape", "Transform">>
    /\ sceneOut.shapes[1].geometry = "box"
    /\ sceneOut.shapes[1].position = PlaceOf(2)
    /\ sceneOut.shapes[2].geometry = "sphere"
    /\ sceneOut.shapes[2].position = Origin

\* C23: when parseVRML has returned, no Shape block of the text has given more
\* than one entity; the Shape in the children of a Transform has given the one
\* entity placed by the Transform and none at the origin
C23_NoDoubleEmission ==
    Returned =>
        /\ Len(sceneOut.shapes) <= Len(BlockStarts(expandedText, "Shape", FALSE))
        /\ \A k \in 1..Len(NodesOf(sourceText)) :
              Cardinality({a \in 1..Len(sceneOut.shapes) :
                              BlockOf(sceneOut.shapes[a]) = k}) <= 1
        /\ \A a \in 1..Len(sceneOut.shapes) :
              NodesOf(sourceText)[BlockOf(sceneOut.shapes[a])] = "Transform" =>
                  sceneOut.shapes[a].position = PlaceOf(BlockOf(sceneOut.shapes[a]))

\* one Transform with one Shape: two entities, the Shape placed by the Transform
\* and the same Shape at the origin
C23_Witness ==
    /\ Returned
    /\ NodesOf(sourceText) = <<"Transform">>
    /\ Len(sceneOut.shapes) = 2
    /\ sceneOut.shapes[1].geometry = "sphere"
    /\ sceneOut.shapes[1].position = PlaceOf(1)
    /\ sceneOut.shapes[2].geometry = "sphere"
    /\ sceneOut.shapes[2].position = Origin

-----------------------------------------------------------------------------
(* SpecShapes: parseVRML applied to a text of one Shape block, which hands  *)
(* the content of the block to parseShapeNode.                              *)

\* the most geometry keywords in the content of a block
MaxKeywords == 2

\* the six keywords in the order parseShapeNode tests them, and their kinds
GeometryKeywords ==
    <<"IndexedLineSet", "IndexedFaceSet", "Sphere", "Box", "Cylinder", "Cone">>
GeometryKinds == <<"lines", "mesh", "sphere", "box", "cylinder", "cone">>

\* the keywords of a content, in the order they are written: up to MaxKeywords
\* of the six, no keyword twice
KeywordLists ==
    {ks \in UNION {[1..n -> 1..Len(GeometryKeywords)] : n \in 0..MaxKeywords} :
        \A a, b \in 1..Len(ks) : a # b => ks[a] # ks[b]}

\* a content with the keywords ks: a material, then one node per keyword
KeywordContent(ks) ==
    " appearance Appearance { material Material { diffuseColor 1 0 0 } } geometry"
    \o Join([k \in 1..Len(ks) |-> " " \o GeometryKeywords[ks[k]] \o " { }"], "") \o " "

\* the callers of parseShapeNode: the standalone pass, and the Transform pass
\* with the standalone pass after it
ShapeCallers == {"Shape", "Transform"}
CallerText(caller, content) ==
    IF caller = "Transform"
    THEN "Transform { translation 1 2 3 children [ Shape {" \o content \o "} ] }"
    ELSE "Shape {" \o content \o "}"

KeywordTexts ==
    {CallerText(caller, KeywordContent(ks)) : caller \in ShapeCallers, ks \in KeywordLists}

\* the kind each of these texts is to give: that of the keyword tested first
\* among those written, "" when none is written
KeywordKinds ==
    {<<CallerText(caller, KeywordContent(ks)),
       IF Len(ks) = 0 THEN "" ELSE GeometryKinds[Min({ks[k] : k \in 1..Len(ks)})]>> :
        caller \in ShapeCallers, ks \in KeywordLists}

\* the longest coordIndex list, in faces, and the longest face
MaxFaces == 2
MaxFaceLength == 4

\* the faces of a coordIndex list, as their lengths: the k-th face of length n
\* holds the indices 10k, 10k + 1, ..., 10k + n - 1
FaceLists == UNION {[1..n -> 0..MaxFaceLength] : n \in 1..MaxFaces}
FaceOf(k, n) == [j \in 1..n |-> 10 * k + j - 1]

\* the list as it is written: a -1 after every face but the last one, and after
\* the last one when the list is closed
IndexTokens(faces, closed) ==
    [k \in 1..Len(faces) |->
        Join([j \in 1..faces[k] |-> IntToDigits(FaceOf(k, faces[k])[j])]
             \o (IF k < Len(faces) \/ closed THEN <<"-1">> ELSE <<>>), "|")]
IndexSeparators == {", ", " "}
RECURSIVE WithSeparator(_, _)
WithSeparator(str, sep) ==
    With(IndexOfFrom(str, "|", 0), LAMBDA k :
        IF k = -1 THEN str
        ELSE Substring(str, 0, k) \o sep \o WithSeparator(SubstringFrom(str, k + 1), sep))
FaceText(faces, closed, sep) ==
    "Shape { geometry IndexedFaceSet { coordIndex [ "
    \o WithSeparator(Join(SelectSeq(IndexTokens(faces, closed), LAMBDA t : t # ""), "|"),
                     sep)
    \o " ] } }"

FaceTexts ==
    {FaceText(faces, closed, sep) :
        faces \in FaceLists, closed \in BOOLEAN, sep \in IndexSeparators}

\* the texts of one node of each kind with attributes: none written, some written
BoxTexts == {"Shape { geometry Box { } }", "Shape { geometry Box { size 2 3 4 } }",
             "Shape { geometry Box { size 2.5 } }"}
SphereTexts == {"Shape { geometry Sphere { } }", "Shape { geometry Sphere { radius 2.5 } }"}
RoundTexts(keyword, radiusName) ==
    {"Shape { geometry " \o keyword \o " {" \o r \o h \o " } }" :
        r \in {"", " " \o radiusName \o " 3"}, h \in {"", " height 4.5"}}
AttributeTexts ==
    BoxTexts \cup SphereTexts \cup RoundTexts("Cylinder", "radius")
    \cup RoundTexts("Cone", "bottomRadius")

ShapeTexts == KeywordTexts \cup FaceTexts \cup AttributeTexts

InitShapes ==
    /\ sourceText \in ShapeTexts
    /\ extraction = NoExtraction
    /\ declText = ""
    /\ parsedFields = <<>>
    /\ pc = "parseVRML"
    /\ protos = [r \in RegistryIds |-> EmptyMap]
    /\ history = [r \in RegistryIds |-> <<>>]
    /\ ret = NoCall
    /\ resolveIn = NoResolveIn
    /\ resolvedBody = ""
    /\ expandIn = NoExpandIn
    /\ expandedText = ""
    /\ currentDepth = 0
    /\ passes = 0
    /\ parseLog = <<>>
    /\ sceneOut = NoScene

SpecShapes == InitShapes /\ [][NextScene]_vars

\* the three passes have been made
PassesMade == pc = "shapes"

\* the kind the text of the call is to give
KindOf(text) == (CHOOSE pair \in KeywordKinds : pair[1] = text)[2]

\* C24: when the passes over a Shape block have been made, every entity of the
\* block has the kind of the keyword that comes first in the order
\* IndexedLineSet, IndexedFaceSet, Sphere, Box, Cylinder, Cone among the keywords
\* written in the block, in whatever order they are written; a block with none of
\* the six gives no entity, and the call returns as for a text without shapes
C24_GeometryPriority ==
    sourceText \in KeywordTexts =>
        /\ pc \in SceneStages
        /\ PassesMade =>
              /\ (KindOf(sourceText) = "") <=> (sceneOut.shapes = <<>>)
              /\ \A k \in 1..Len(sceneOut.shapes) :
                    sceneOut.shapes[k].geometry = KindOf(sourceText)
        /\ (Returned /\ KindOf(sourceText) = "") => sceneOut.shapes = <<FallbackShape>>

\* a block with Cone written before Sphere: the entity is a sphere
C24_Witness ==
    /\ PassesMade
    /\ sourceText = CallerText("Shape", KeywordContent(<<6, 3>>))
    /\ Includes(sourceText, "Cone { } Sphere { }")
    /\ Len(sceneOut.shapes) = 1
    /\ sceneOut.shapes[1].geometry = "sphere"

-----------------------------------------------------------------------------
\* the triangles (f[0], f[i], f[i+1]), i = 1..n-2, of a face f, from i on
RECURSIVE FanFrom(_, _)
FanFrom(face, i) ==
    IF i > Len(face) - 2 THEN <<>>
    ELSE <<IntNumber(face[1]), IntNumber(face[i + 1]), IntNumber(face[i + 2])>>
         \o FanFrom(face, i + 1)

\* the triangles of the faces of a list, in order
RECURSIVE FansOf(_, _)
FansOf(faces, k) ==
    IF k > Len(faces) THEN <<>>
    ELSE FanFrom(FaceOf(k, faces[k]), 1) \o FansOf(faces, k + 1)

\* each text with the index list it is to give
FaceIndices ==
    {<<FaceText(faces, closed, sep), FansOf(faces, 1)>> :
        faces \in FaceLists, closed \in BOOLEAN, sep \in IndexSeparators}

\* C25: when the passes over an IndexedFaceSet block have been made, the index
\* list of its entity holds, for every run of indices between the -1 of the
\* coordIndex list, the last run included whether a -1 closes it or not, the
\* triangles (f[0], f[i], f[i+1]) of the run in order, nothing for a run shorter
\* than 3; its length is a multiple of 3 and it holds no -1
C25_FanTriangles ==
    (PassesMade /\ sourceText \in FaceTexts) =>
        /\ Len(sceneOut.shapes) = 1
        /\ sceneOut.shapes[1].geometry = "mesh"
        /\ sceneOut.shapes[1].indices # None
        /\ Len(sceneOut.shapes[1].indices[1]) % 3 = 0
        /\ \A k \in 1..Len(sceneOut.shapes[1].indices[1]) :
              sceneOut.shapes[1].indices[1][k] # MinusOne
        /\ <<sourceText, sceneOut.shapes[1].indices[1]>> \in FaceIndices

\* a triangle closed by -1 followed by a quad that no -1 closes: the index list
\* holds the triangle alone
C25_Witness ==
    /\ PassesMade
    /\ sourceText = "Shape { geometry IndexedFaceSet { coordIndex [ "
                    \o "10, 11, 12, -1, 20, 21, 22, 23 ] } }"
    /\ sceneOut.shapes[1].indices = Some(<<IntNumber(10), IntNumber(11), IntNumber(12)>>)

-----------------------------------------------------------------------------
\* the attributes each of the texts with attributes is to give its entity: the
\* values written, and the defaults of the kind for those not written
BoxAttributes ==
    {[text |-> "Shape { geometry Box { } }",
      size |-> <<IntNumber(1), IntNumber(1), IntNumber(1)>>],
     [text |-> "Shape { geometry Box { size 2 3 4 } }",
      size |-> <<IntNumber(2), IntNumber(3), IntNumber(4)>>],
     [text |-> "Shape { geometry Box { size 2.5 } }",
      size |-> <<MkNumber(25, 1), IntNumber(1), IntNumber(1)>>]}
SphereAttributes ==
    {[text |-> "Shape { geometry Sphere { } }", radius |-> IntNumber(1)],
     [text |-> "Shape { geometry Sphere { radius 2.5 } }", radius |-> MkNumber(25, 1)]}
RoundAttributes(keyword, radiusName) ==
    {[text |-> "Shape { geometry " \o keyword \o " {"
               \o (IF r THEN " " \o radiusName \o " 3" ELSE "")
               \o (IF h THEN " height 4.5" ELSE "") \o " } }",
      radius |-> IF r THEN IntNumber(3) ELSE IntNumber(1),
      height |-> IF h THEN MkNumber(45, 1) ELSE IntNumber(2)] :
        r \in BOOLEAN, h \in BOOLEAN}

\* C26: when the passes over a block with one Box, Sphere, Cylinder or Cone have
\* been made, its entity carries the attributes of its kind: a Box a size of
\* three numbers, [1,1,1] when no size is written; a Sphere a radius, 1 when none
\* is written; a Cylinder a radius and a height, 1 and 2 when not written; a Cone
\* its bottomRadius as radius and a height, 1 and 2 when not written
C26_AttributeDefaults ==
    (PassesMade /\ sourceText \in AttributeTexts) =>
        /\ Len(sceneOut.shapes) = 1
        /\ \A box \in BoxAttributes :
              box.text = sourceText =>
                  /\ sceneOut.shapes[1].geometry = "box"
                  /\ sceneOut.shapes[1].size = Some(box.size)
        /\ \A sphere \in SphereAttributes :
              sphere.text = sourceText =>
                  /\ sceneOut.shapes[1].geometry = "sphere"
                  /\ sceneOut.shapes[1].radius = Some(sphere.radius)
        /\ \A cylinder \in RoundAttributes("Cylinder", "radius") :
              cylinder.text = sourceText =>
                  /\ sceneOut.shapes[1].geometry = "cylinder"
                  /\ sceneOut.shapes[1].radius = Some(cylinder.radius)
                  /\ sceneOut.shapes[1].height = Some(cylinder.height)
        /\ \A cone \in RoundAttributes("Cone", "bottomRadius") :
              cone.text = sourceText =>
                  /\ sceneOut.shapes[1].geometry = "cone"
                  /\ sceneOut.shapes[1].radius = Some(cone.radius)
                  /\ sceneOut.shapes[1].height = Some(cone.height)

\* a Box with no size written: its entity has no size
C26_Witness ==
    /\ PassesMade
    /\ sourceText = "Shape { geometry Box { } }"
    /\ sceneOut.shapes[1].geometry = "box"
    /\ sceneOut.shapes[1].size = None

-----------------------------------------------------------------------------
\* the text the usage of Thing is to expand to: the body with, for each of the two
\* fields, the value the usage writes for it, or its default when the usage does
\* not write it
AnchorExpansion(type, writing) ==
    "Pair {\n  first "
    \o (IF writing \in {"first", "both", "swapped", "other"}
        THEN FirstText(type) ELSE DefaultText(type))
    \o "\n  second "
    \o (IF writing \in {"second", "both", "swapped"}
        THEN SecondText(type) ELSE DefaultText(type))
    \o "\n}"

AnchorExpansions ==
    {<<AnchorInput(fieldNames, type, writing), AnchorExpansion(type, writing)>> :
        fieldNames \in AnchorNames, type \in AnchorTypes, writing \in AnchorWritings}

\* C27: when expandAllProtos has returned for a usage of a template with two
\* fields, each field has in the expansion the value the usage writes under its
\* own name, and its default when the usage does not write it: a value written
\* for one field is no override of the other, whose name may be a suffix of the
\* first's or differ from it in letter case only, and a token that names no
\* field changes nothing
C27_OverrideAnchoring ==
    (Expanded /\ expandIn.kind = "anchor") =>
        <<expandIn, expandedText>> \in AnchorExpansions

\* the usage writes boxSize 2 and no size: size has the value 2 in the expansion
C27_Witness ==
    /\ Expanded
    /\ expandIn.kind = "anchor"
    /\ expandIn.vrmlText = "Thing { boxSize 2 }"
    /\ expandedText = "Pair {\n  first 2\n  second 2\n}"

-----------------------------------------------------------------------------
\* what the usages of Blank and Part are to leave in the text: nothing for the
\* usage of Blank, the body of Part for the usage of Part
BlankExpansions ==
    {<<FramedBefore \o "Blank { }" \o FramedAfter, FramedBefore \o FramedAfter>>,
     <<FramedBefore \o "Blank { }\nPart { size 2 }" \o FramedAfter,
       FramedBefore \o "\nBox { }" \o FramedAfter>>}

\* C30: a pass of expandAllProtos replaces every located usage of a registered
\* template by its expanded body, so every pass changes the text; when the call
\* has returned, under a ceiling of at least 1, for a text with a usage of a
\* registered template whose body is the empty text, the usage is gone from the
\* text, the other usages are expanded, and the call has not run to the ceiling
C30_ReplacedOrAbsent ==
    /\ []((Expanded /\ expandIn.kind = "blank" /\ expandIn.maxDepth > 0) =>
             /\ <<expandIn.vrmlText, expandedText>> \in BlankExpansions
             /\ currentDepth < expandIn.maxDepth)
    /\ [][(pc = "expand" /\ passes' = passes + 1) => expandedText' # expandedText]_vars

\* a usage of the template with the empty body, under the default ceiling: the
\* call has returned at the ceiling, after as many passes, with its input
C30_Witness ==
    /\ Expanded
    /\ expandIn.kind = "blank"
    /\ expandIn.vrmlText = FramedBefore \o "Blank { }" \o FramedAfter
    /\ expandIn.maxDepth = DefaultMaxDepth
    /\ currentDepth = DefaultMaxDepth
    /\ passes = DefaultMaxDepth
    /\ expandedText = expandIn.vrmlText

-----------------------------------------------------------------------------
\* what an occurrence is to read after resolution, the value written as the
\* numbers of the field it names
OccurrenceBound(o, gap, fv) ==
    IF o.field \in DOMAIN fv
    THEN o.token \o " " \o SpaceJoined(fv[o.field])
    ELSE OccurrenceText(o, gap)

\* the body binds both the field and the field with the longer name
BindsBoth(parts) ==
    /\ \E k \in 1..Len(parts) : parts[k].field = "a"
    /\ \E k \in 1..Len(parts) : parts[k].field = "a0"

\* C29: when resolveISBindings has returned for a body that binds a field a and a
\* field a0, in either order and with either, both or none of the two in the map,
\* each occurrence reads the value of the field it names, or is as written when
\* its field is not in the map: the replacement made for "<token> IS a" has not
\* touched the occurrence "<token> IS a0"
C29_PrefixSafeReplacement ==
    (pc = "resolved" /\ BindsBoth(resolveIn.parts)) =>
        /\ resolvedBody =
              (IF resolveIn.wrapped THEN "geometry Box { " ELSE "")
              \o Join([k \in 1..Len(resolveIn.parts) |->
                          OccurrenceBound(resolveIn.parts[k], resolveIn.gap,
                                          resolveIn.fieldValues)], "\n")
              \o (IF resolveIn.wrapped THEN " }" ELSE "")
        /\ \A k \in 1..Len(resolveIn.parts) :
              ("a" \in DOMAIN resolveIn.fieldValues /\ resolveIn.parts[k].field = "a0") =>
                  ~Includes(resolvedBody,
                            resolveIn.parts[k].token \o " "
                            \o SpaceJoined(resolveIn.fieldValues["a"]) \o "0")

\* one token bound to a and then to a0, both in the map: 0.5 and 2
C29_Witness ==
    /\ pc = "resolved"
    /\ resolveIn.bodyTemplate = "p IS a\np IS a0"
    /\ DOMAIN resolveIn.fieldValues = {"a", "a0"}
    /\ resolvedBody = "p 0.5\np 2"

-----------------------------------------------------------------------------
(* SpecDuplicates: parseVRML applied to a text that defines the PROTO Dup   *)
(* more than once and uses it before, between and after the definitions.    *)

\* the most definitions of the one name in a text
MaxDefinitions == 3

\* the body of the k-th definition: a geometry of its own, or a Sphere whose
\* radius is bound to a field with the default k
DupBody(k, withField) ==
    IF withField THEN "Shape { geometry Sphere { radius IS radius } }"
    ELSE "Shape { geometry " \o NodeGeometries[k] \o " { } }"
DupDefinition(k, withField) ==
    ProtoDefinition("Dup",
        IF withField THEN <<ProtoField("radius", "SFFloat", NumValue(IntNumber(k)))>>
        ELSE <<>>,
        DupBody(k, withField))
DupBlock(k, withField) ==
    "PROTO Dup [ "
    \o (IF withField THEN "field SFFloat radius " \o IntToDigits(k) \o " " ELSE "")
    \o "] { " \o DupBody(k, withField) \o " }"

\* what a usage of Dup is to expand to when n definitions are written: the body
\* of the n-th
DupExpansion(n, withField) ==
    IF withField THEN "Shape { geometry Sphere { radius " \o IntToDigits(n) \o " } }"
    ELSE DupBody(n, withField)

\* the lines of a text with n definitions: line 2k is the k-th definition, line
\* 2p + 1 a usage when p is one of the places of a usage and empty otherwise;
\* definition and usage stand for what the two kinds of line read
DupLines(n, places, definition, usage) ==
    [i \in 1..(2 * n + 1) |->
        IF i % 2 = 0 THEN definition[i \div 2]
        ELSE IF (i - 1) \div 2 \in places THEN usage ELSE ""]

\* a text, with what the call is to make of it at each of its stages
DupCase(n, places, withField) ==
    [text     |-> Join(DupLines(n, places, [k \in 1..n |-> DupBlock(k, withField)],
                                "Dup { }"), "\n"),
     protos   |-> [k \in 1..n |-> DupDefinition(k, withField)],
     cleaned  |-> Join(DupLines(n, places, [k \in 1..n |-> ""], "Dup { }"), "\n"),
     expanded |-> Join(DupLines(n, places, [k \in 1..n |-> ""],
                                DupExpansion(n, withField)), "\n"),
     usages   |-> Cardinality(places),
     kind     |-> IF withField THEN "sphere" ELSE NodeKinds[n],
     radius   |-> IF withField THEN IntNumber(n) ELSE IntNumber(1)]

DupCasesOf(n) ==
    {DupCase(n, places, withField) :
        places \in (SUBSET (0..n)) \ {{}}, withField \in BOOLEAN}

DupCases ==
    UNION {DupCasesOf(n) : n \in 2..Min({MaxDefinitions, Len(NodeGeometries)})}

DupTexts == {c.text : c \in DupCases}

InitDuplicates ==
    /\ sourceText \in DupTexts
    /\ extraction = NoExtraction
    /\ declText = ""
    /\ parsedFields = <<>>
    /\ pc = "parseVRML"
    /\ protos = [r \in RegistryIds |-> EmptyMap]
    /\ history = [r \in RegistryIds |-> <<>>]
    /\ ret = NoCall
    /\ resolveIn = NoResolveIn
    /\ resolvedBody = ""
    /\ expandIn = NoExpandIn
    /\ expandedText = ""
    /\ currentDepth = 0
    /\ passes = 0
    /\ parseLog = <<>>
    /\ sceneOut = NoScene

SpecDuplicates == InitDuplicates /\ [][NextScene]_vars

\* the case the text of the call is
DupCaseOf(text) == CHOOSE c \in DupCases : c.text = text

\* C28: when a text defines the one PROTO name more than once,
\* extractProtoBlocks returns the definitions in the order of the text and
\* parseVRML registers them in that order; every block of a definition is gone
\* from the residual text, which keeps the usages; the registry holds the last
\* definition under the name; and every usage, before, between or after the
\* definitions, is expanded with the body of the last definition, so that the
\* scene holds one entity of the last definition for every usage
C28_LastDefinitionWins ==
    pc # "parseVRML" =>
        With(DupCaseOf(sourceText), LAMBDA c :
            /\ extraction.protos = c.protos
            /\ extraction.cleanedText = c.cleaned
            /\ ~Includes(extraction.cleanedText, "PROTO")
            /\ SubSeq(history[SceneRegistry], 1, Len(c.protos)) =
                   [k \in 1..Len(c.protos) |->
                       [op |-> "register", name |-> "Dup", def |-> c.protos[k]]]
            /\ (~Returned =>
                    Lookup(protos[SceneRegistry], "Dup") = c.protos[Len(c.protos)])
            /\ (pc \in {"expanded", "shapes", "returned"} => expandedText = c.expanded)
            /\ (pc \in {"shapes", "returned"} =>
                    /\ Len(sceneOut.shapes) = c.usages
                    /\ \A k \in 1..Len(sceneOut.shapes) :
                           /\ sceneOut.shapes[k].geometry = c.kind
                           /\ sceneOut.shapes[k].radius \in {None, Some(c.radius)}
                           /\ (c.kind = "sphere" =>
                                   sceneOut.shapes[k].radius = Some(c.radius))))

\* three definitions with a default radius each and a usage written before the
\* first of them and another between the first and the second: the call has
\* returned two Spheres with the radius of the third definition
C28_Witness ==
    /\ Returned
    /\ DupCaseOf(sourceText) = DupCase(3, {0, 1}, TRUE)
    /\ Len(extraction.protos) = 3
    /\ Len(sceneOut.shapes) = 2
    /\ sceneOut.shapes[1].geometry = "sphere"
    /\ sceneOut.shapes[1].radius = Some(IntNumber(3))
    /\ sceneOut.shapes[2].radius = Some(IntNumber(3))

=============================================================================
